---------------------------- MODULE Spec2Model ----------------------------
(***************************************************************************)
(* origami-media: the dispatch / concurrency layer (preprocess tasks, the  *)
(* bounded event queue, the pool of process workers, the per-item progress *)
(* indicator) and the media resolution pipeline (profile lookup, metadata  *)
(* query, gated download).                                                 *)
(*                                                                         *)
(* Scheduling is asyncio's: one event loop, a task runs until its next     *)
(* await.  Every action below is the code between two suspension points.   *)
(* The transport primitives react / redact / send are taken as atomic:     *)
(* a call either has happened, with its result stored, or has not.         *)
(***************************************************************************)
EXTENDS Integers, Sequences, FiniteSets, TLC

\* ------------------------------------------------------------------ bounds
\* Number of inbound events that yield a work item.
NumItems == 4
\* config.queue["process_worker_count"]
ProcessWorkerCount == 1
\* config.queue["event_queue_capacity"] (positive: asyncio.Queue(n) is bounded
\* only for n > 0)
EventQueueCapacity == 2
\* config.queue["preprocess_worker_limit"]
PreprocessWorkerLimit == 1

Items == 1..NumItems

\* The indicators one work item can get: the hourglass posted by the
\* preprocess phase, the in-progress one posted by the worker, and the
\* in-progress one posted again by CommandHandler._process_url.
Indicators == {"queued", "inprogress", "inprogress2"}
NoHandle == "none"

VARIABLES
    variant,          \* which route action the worker runs: RouteExecutor or CommandHandler
    phase,            \* phase[i]: where work item i is in its life
    preprocess_tasks, \* PreprocessWorker.preprocess_tasks: a set of event ids
    event_queue,      \* Manager.event_queue: asyncio.Queue(event_queue_capacity)
    reaction_id,      \* packet.reaction_id of item i
    visible,          \* visible[i]: indicators of item i posted and not redacted
    pc,               \* pc[w]: the await worker w is suspended at
    packet,           \* packet[w]: the local `packet` of worker w's task (0: unbound)
    exit,             \* exit[w]: how the route action of worker w is ending
    dequeues          \* dequeues[i]: how many times item i left the queue

dvars == <<variant, phase, preprocess_tasks, event_queue, reaction_id, visible,
           pc, packet, exit, dequeues>>

\* One media request on its way through MediaProcessor.
VARIABLES
    url,              \* the netloc of the request's url: [labels, port]
    query_derived,    \* create_media_request(query_derived=...)
    platform_configs, \* config.platform_configs: profile key -> profile dict
    config,           \* the switches of config.ffmpeg and config.ytdlp
    mpc,              \* where the request is in MediaProcessor
    platform_config,  \* the profile create_media_request resolved
    command_index,    \* position in the command list being tried
    ytdlp_metadata,   \* MediaRequest.ytdlp_metadata
    request,          \* what create_media_request returned
    calls,            \* kinds of outside calls made so far for the request
    fallback,         \* _attempt_thumbnail_fallback was entered
    artifact,         \* what process_request has produced
    modifier,         \* MediaRequest.modifier
    remote,           \* what the remote site serves for the url
    data,             \* the bytes in hand: [len, type]
    content,          \* Media.content, the primary MediaFile
    thumbnail,        \* Media.thumbnail
    normalize,        \* what _post_process did about normalizing the primary
    commands          \* the formats of `commands` in _download_advanced_media

mvars == <<url, query_derived, platform_configs, config, mpc, platform_config,
           command_index, ytdlp_metadata, request, calls, fallback, artifact,
           modifier, remote, data, content, thumbnail, normalize, commands>>

\* One call of Native.client_download.
VARIABLES
    n_variant,        \* which client_download: "services" or "media_utils"
    n_pc,             \* where the call is
    n_cap,            \* max_file_size read from the config
    n_retries,        \* max_retries
    n_attempt,        \* attempt
    n_chunks,         \* lengths of the chunks the response has yet to yield
    n_total,          \* total_bytes
    n_output,         \* bytes written to output
    n_result          \* length of what was returned, -1 for None or nothing

nvars == <<n_variant, n_pc, n_cap, n_retries, n_attempt, n_chunks, n_total,
           n_output, n_result>>

\* One call of an adapter that runs a subprocess.
VARIABLES
    a_adapter,        \* "query", "download" or "livestream"
    a_pc,             \* where the call is
    a_commands,       \* len(commands)
    a_index,          \* position of command_entry in commands
    a_process,        \* the child of the current command
    a_exit,           \* how the try block was left
    a_dir,            \* download_dir on disk: "absent", "empty" or "files"
    a_cancelled       \* the route timeout has cancelled the task

avars == <<a_adapter, a_pc, a_commands, a_index, a_process, a_exit, a_dir,
           a_cancelled>>

\* One call of MediaProcessor._generate_media_filename.
VARIABLES
    f_pc,             \* "idle", "call" or "done"
    f_metadata,       \* title, uploader, extractor and id, as character lists
    f_extension,      \* the extension
    f_filename        \* what was returned

fvars == <<f_pc, f_metadata, f_extension, f_filename>>

\* What outlives one turn of the loop of ProcessWorker.process, and shutdown.
VARIABLES
    stopping,         \* Manager.stop has cancelled the worker tasks
    stale,            \* stale[w]: the item the local `packet` of worker w is
                      \* still bound to after its turn ended (0: unbound),
                      \* and whether its reaction_id is still set
    task_done         \* task_done[i]: event_queue.task_done() calls made with
                      \* `packet` bound to item i

svars == <<stopping, stale, task_done>>

\* One call of an operation of the transcode adapter.
VARIABLES
    t_pc,             \* "idle", "convert", "validate", "returned" or "raised"
    t_op,             \* which operation of Ffmpeg
    t_cap,            \* config.file.get("max_in_memory_file_size", 0)
    t_output,         \* the length of what the ffmpeg child wrote
    t_result          \* the length of the buffer returned (-1: none)

tvars == <<t_pc, t_op, t_cap, t_output, t_result>>

\* One call of MediaHandler.process on the requests of one message.
VARIABLES
    h_pc,             \* "idle", "loop", "returned" or "raised"
    h_count,          \* len(requests)
    h_index,          \* the position of the request the loop is at
    h_outcomes,       \* how each request handled so far went
    h_result          \* processed_media_array, as positions in `requests`

hvars == <<h_pc, h_count, h_index, h_outcomes, h_result>>

xvars == <<nvars, avars, fvars, svars, tvars, hvars>>

vars == <<dvars, mvars, xvars>>

\* Mutant of Workers: the pool is spawned with one task too many.
WorkersOneTooMany == 1..(ProcessWorkerCount + 1)

\* spawn_process_workers: one task per index in range(process_worker_count)
Workers == 1..ProcessWorkerCount

RoutePcs == {"x_media", "x_redact", "x_render", "hang",
             "h_redact", "h_react", "h_prep", "h_media", "h_redact2",
             "h_render", "h_finally"}

InitDispatch ==
    /\ variant \in {"executor", "handler"}
    /\ phase = [i \in Items |-> "New"]
    /\ preprocess_tasks = {}
    /\ event_queue = <<>>
    /\ reaction_id = [i \in Items |-> NoHandle]
    /\ visible = [i \in Items |-> {}]
    /\ pc = [w \in Workers |-> "get"]
    /\ packet = [w \in Workers |-> 0]
    /\ exit = [w \in Workers |-> "none"]
    /\ dequeues = [i \in Items |-> 0]
    /\ stopping = FALSE
    /\ stale = [w \in Workers |-> [item |-> 0, handle |-> FALSE]]
    /\ task_done = [i \in Items |-> 0]

\* A Python None, and an empty dict: both are falsy, neither has a key.
PyNone == <<>>

\* No bytes, and no MediaFile (None).
NoData == [len |-> 0, type |-> "none"]
NoFile == [origin |-> "none"]

\* No client_download and no adapter call is under way.
NativeIdle ==
    /\ n_variant = "services"
    /\ n_pc = "idle"
    /\ n_cap = 0
    /\ n_retries = 1
    /\ n_attempt = 0
    /\ n_chunks = <<>>
    /\ n_total = 0
    /\ n_output = 0
    /\ n_result = -1

FilenameIdle ==
    /\ f_pc = "idle"
    /\ f_metadata = <<>>
    /\ f_extension = <<>>
    /\ f_filename = <<>>

TranscodeIdle ==
    /\ t_pc = "idle"
    /\ t_op = "none"
    /\ t_cap = 0
    /\ t_output = 0
    /\ t_result = -1

HandlerIdle ==
    /\ h_pc = "idle"
    /\ h_count = 0
    /\ h_index = 0
    /\ h_outcomes = <<>>
    /\ h_result = <<>>

AdapterIdle ==
    /\ a_adapter = "none"
    /\ a_pc = "idle"
    /\ a_commands = 0
    /\ a_index = 0
    /\ a_process = "none"
    /\ a_exit = "none"
    /\ a_dir = "absent"
    /\ a_cancelled = FALSE

\* No media request is under way.
MediaIdle ==
    /\ url = [labels |-> <<>>, port |-> FALSE]
    /\ query_derived = FALSE
    /\ platform_configs = <<>>
    /\ config = <<>>
    /\ mpc = "idle"
    /\ platform_config = PyNone
    /\ command_index = 0
    /\ ytdlp_metadata = PyNone
    /\ request = "unset"
    /\ calls = {}
    /\ fallback = FALSE
    /\ artifact = "none"
    /\ modifier = "none"
    /\ remote = [media_len |-> 1, media_type |-> "video", thumbnail_len |-> 1]
    /\ data = NoData
    /\ content = NoFile
    /\ thumbnail = NoFile
    /\ normalize = "none"
    /\ commands = <<>>

Init ==
    /\ InitDispatch /\ MediaIdle /\ NativeIdle /\ AdapterIdle
    /\ FilenameIdle /\ TranscodeIdle /\ HandlerIdle

\* ---------------------------------------------------------------- transport
\* client.redact(event_id=h): the indicator h of item i is no longer visible.
Redact(i, h) == [visible EXCEPT ![i] = @ \ {h}]

\* event.react(...): a new indicator h of item i becomes visible.
React(i, h) == [visible EXCEPT ![i] = @ \cup {h}]

\* ------------------------------------------------------------------ intake
\* Manager.spawn_preprocess_worker: create_task(preprocess(packet)); returns
\* at once, whatever the lock, the set or the queue hold.  Events are numbered
\* in the order they arrive.
Submit(i) ==
    /\ phase[i] = "New"
    /\ \A j \in Items : j < i => phase[j] # "New"
    /\ phase' = [phase EXCEPT ![i] = "Received"]
    /\ UNCHANGED <<variant, preprocess_tasks, event_queue, reaction_id, visible,
                   pc, packet, exit, dequeues,
                   mvars, xvars>>

\* Mutant of IsAllowed: the cap is compared one too high.
IsAllowedOffByOne(tasks) == ~(Cardinality(tasks) > PreprocessWorkerLimit + 1)

\* PreprocessWorker._is_allowed, evaluated on the set `tasks`
IsAllowed(tasks) == ~(Cardinality(tasks) > PreprocessWorkerLimit)

\* PreprocessWorker.preprocess up to its first suspension inside
\* handle_preprocess: add the event id, ask _is_allowed (the lock is never
\* held across an await, so acquiring it does not suspend), return if refused.
\* The refused id stays in preprocess_tasks: the early return is before the try.
\* The loop starts tasks in the order create_task made them.
PreStart(i) ==
    /\ phase[i] = "Received"
    /\ \A j \in Items : j < i => phase[j] \notin {"New", "Received"}
    /\ LET tasks == preprocess_tasks \cup {i} IN
         /\ preprocess_tasks' = tasks
         /\ phase' = [phase EXCEPT ![i] =
                         IF IsAllowed(tasks) THEN "Preprocessing" ELSE "Dropped"]
    /\ UNCHANGED <<variant, event_queue, reaction_id, visible, pc, packet, exit,
                   dequeues,
                   mvars, xvars>>

\* Mutant of QueueFull: the queue takes one item more than its capacity.
QueueFullOffByOne(q) == Len(q) > EventQueueCapacity

\* asyncio.Queue.full()
QueueFull(q) == Len(q) >= EventQueueCapacity

\* The finally of preprocess: discard(packet.event.event_id).  When
\* _preprocess_url censored the message it replaced packet.event.event_id by
\* the id of the bot's new message, and the discard removes nothing.
Discard(tasks, i, censored) == IF censored THEN tasks ELSE tasks \ {i}

\* handle_preprocess returns None (no valid url, url limit exceeded, a print
\* or debug command) or raises: nothing is posted, nothing is enqueued.
PreReject(i) ==
    /\ phase[i] = "Preprocessing"
    /\ \E censored \in BOOLEAN :
         preprocess_tasks' = Discard(preprocess_tasks, i, censored)
    /\ phase' = [phase EXCEPT ![i] = "Dropped"]
    /\ UNCHANGED <<variant, event_queue, reaction_id, visible, pc, packet, exit,
                   dequeues,
                   mvars, xvars>>

\* handle_preprocess posts the hourglass and returns the packet; put_nowait
\* follows without an await in between and raises QueueFull on a full queue.
PreEnqueue(i) ==
    /\ phase[i] = "Preprocessing"
    /\ \E censored \in BOOLEAN :
         preprocess_tasks' = Discard(preprocess_tasks, i, censored)
    /\ reaction_id' = [reaction_id EXCEPT ![i] = "queued"]
    /\ visible' = React(i, "queued")
    /\ IF QueueFull(event_queue)
         THEN /\ event_queue' = event_queue
              /\ phase' = [phase EXCEPT ![i] = "Dropped"]
         ELSE /\ event_queue' = Append(event_queue, i)
              /\ phase' = [phase EXCEPT ![i] = "Queued"]
    /\ UNCHANGED <<variant, pc, packet, exit, dequeues,
                   mvars, xvars>>

\* ---------------------------------------------------------- process worker
Item(w) == packet[w]

\* The first await of the route action the worker hands to wait_for:
\* RouteExecutor.execute_url_route / execute_query_route await the media
\* handler; CommandHandler.handle_process is wrapped by
\* ensure_reaction_cleanup, which first redacts the handle it finds.
RouteEntry(h) ==
    IF variant = "executor" THEN "x_media"
    ELSE IF h # NoHandle THEN "h_redact" ELSE "h_react"

\* Mutant of Dequeue: the item queued last is taken.
DequeueLast(w) ==
    /\ pc[w] = "get"
    /\ \A v \in Workers : v < w => pc[v] # "get"
    /\ event_queue # <<>>
    /\ LET i == event_queue[Len(event_queue)] IN
         /\ packet' = [packet EXCEPT ![w] = i]
         /\ phase' = [phase EXCEPT ![i] = "Processing"]
         /\ dequeues' = [dequeues EXCEPT ![i] = @ + 1]
         /\ pc' = [pc EXCEPT ![w] =
                      IF reaction_id[i] # NoHandle THEN "redact_queued" ELSE "react"]
    /\ event_queue' = SubSeq(event_queue, 1, Len(event_queue) - 1)
    /\ exit' = [exit EXCEPT ![w] = "none"]
    /\ UNCHANGED <<variant, preprocess_tasks, reaction_id, visible,
                   mvars, xvars>>

\* packet = await event_queue.get(); the code up to the next await.  The queue
\* hands an item to one of the getters waiting on it; workers waiting at get
\* hold no state of their own, so the waiting worker of lowest index stands
\* for whichever of them the queue wakes.
Dequeue(w) ==
    /\ pc[w] = "get"
    /\ \A v \in Workers : v < w => pc[v] # "get"
    /\ event_queue # <<>>
    /\ LET i == Head(event_queue) IN
         /\ packet' = [packet EXCEPT ![w] = i]
         /\ phase' = [phase EXCEPT ![i] = "Processing"]
         /\ dequeues' = [dequeues EXCEPT ![i] = @ + 1]
         /\ pc' = [pc EXCEPT ![w] =
                      IF reaction_id[i] # NoHandle THEN "redact_queued" ELSE "react"]
    /\ event_queue' = Tail(event_queue)
    /\ exit' = [exit EXCEPT ![w] = "none"]
    /\ UNCHANGED <<variant, preprocess_tasks, reaction_id, visible,
                   mvars, xvars>>

\* Mutant of RedactQueued: the hourglass is left in place.
RedactQueuedSkipped(w) ==
    /\ pc[w] = "redact_queued"
    /\ pc' = [pc EXCEPT ![w] = "react"]
    /\ UNCHANGED <<variant, phase, preprocess_tasks, event_queue, reaction_id,
                   visible, packet, exit, dequeues,
                   mvars, xvars>>

\* await client.redact(event_id=packet.reaction_id)
RedactQueued(w) ==
    /\ pc[w] = "redact_queued"
    /\ visible' = Redact(Item(w), reaction_id[Item(w)])
    /\ pc' = [pc EXCEPT ![w] = "react"]
    /\ UNCHANGED <<variant, phase, preprocess_tasks, event_queue, reaction_id,
                   packet, exit, dequeues,
                   mvars, xvars>>

\* packet.reaction_id = await packet.event.react(in-progress); then the route
\* action starts under wait_for.
WorkerReact(w) ==
    /\ pc[w] = "react"
    /\ reaction_id' = [reaction_id EXCEPT ![Item(w)] = "inprogress"]
    /\ visible' = React(Item(w), "inprogress")
    /\ pc' = [pc EXCEPT ![w] = RouteEntry("inprogress")]
    /\ UNCHANGED <<variant, phase, preprocess_tasks, event_queue, packet, exit,
                   dequeues,
                   mvars, xvars>>

\* react raises: the worker's `except Exception` logs it, no route action runs.
WorkerReactFails(w) ==
    /\ pc[w] = "react"
    /\ pc' = [pc EXCEPT ![w] = "finally"]
    /\ exit' = [exit EXCEPT ![w] = "exception"]
    /\ UNCHANGED <<variant, phase, preprocess_tasks, event_queue, reaction_id,
                   visible, packet, dequeues,
                   mvars, xvars>>

\* ---- RouteExecutor.execute_url_route / execute_query_route
\* await media_handler.process(...) returns the processed media
XMedia(w) ==
    /\ pc[w] = "x_media"
    /\ pc' = [pc EXCEPT ![w] =
                 IF reaction_id[Item(w)] # NoHandle THEN "x_redact" ELSE "x_render"]
    /\ UNCHANGED <<variant, phase, preprocess_tasks, event_queue, reaction_id,
                   visible, packet, exit, dequeues,
                   mvars, xvars>>

\* ... or raises ("No media was successfully processed", a query error)
XMediaFails(w) ==
    /\ pc[w] = "x_media"
    /\ pc' = [pc EXCEPT ![w] = "finally"]
    /\ exit' = [exit EXCEPT ![w] = "exception"]
    /\ UNCHANGED <<variant, phase, preprocess_tasks, event_queue, reaction_id,
                   visible, packet, dequeues,
                   mvars, xvars>>

\* ... or never returns
RouteHangs(w) ==
    /\ pc[w] \in {"x_media", "h_media"}
    /\ pc' = [pc EXCEPT ![w] = "hang"]
    /\ UNCHANGED <<variant, phase, preprocess_tasks, event_queue, reaction_id,
                   visible, packet, exit, dequeues,
                   mvars, xvars>>

\* if packet.reaction_id: await client.redact(...); packet.reaction_id = None
XRedact(w) ==
    /\ pc[w] = "x_redact"
    /\ visible' = Redact(Item(w), reaction_id[Item(w)])
    /\ reaction_id' = [reaction_id EXCEPT ![Item(w)] = NoHandle]
    /\ pc' = [pc EXCEPT ![w] = "x_render"]
    /\ UNCHANGED <<variant, phase, preprocess_tasks, event_queue, packet, exit,
                   dequeues,
                   mvars, xvars>>

\* await display_handler.render(...): the route action returns or raises
XRender(w) ==
    /\ pc[w] = "x_render"
    /\ \E ok \in BOOLEAN :
         exit' = [exit EXCEPT ![w] = IF ok THEN "delivered" ELSE "exception"]
    /\ pc' = [pc EXCEPT ![w] = "finally"]
    /\ UNCHANGED <<variant, phase, preprocess_tasks, event_queue, reaction_id,
                   visible, packet, dequeues,
                   mvars, xvars>>

\* ---- CommandHandler.handle_process under ensure_reaction_cleanup
\* wrapper, before the method: if packet.reaction_id: await client.redact(...)
\* (the handle is kept)
HRedact(w) ==
    /\ pc[w] = "h_redact"
    /\ visible' = Redact(Item(w), reaction_id[Item(w)])
    /\ pc' = [pc EXCEPT ![w] = "h_react"]
    /\ UNCHANGED <<variant, phase, preprocess_tasks, event_queue, reaction_id,
                   packet, exit, dequeues,
                   mvars, xvars>>

\* _process_url / _process_query: packet.reaction_id = await event.react(...)
HReact(w) ==
    /\ pc[w] = "h_react"
    /\ reaction_id' = [reaction_id EXCEPT ![Item(w)] = "inprogress2"]
    /\ visible' = React(Item(w), "inprogress2")
    /\ pc' = [pc EXCEPT ![w] = "h_prep"]
    /\ UNCHANGED <<variant, phase, preprocess_tasks, event_queue, packet, exit,
                   dequeues,
                   mvars, xvars>>

HReactFails(w) ==
    /\ pc[w] = "h_react"
    /\ exit' = [exit EXCEPT ![w] = "exception"]
    /\ pc' = [pc EXCEPT ![w] = "h_finally"]
    /\ UNCHANGED <<variant, phase, preprocess_tasks, event_queue, reaction_id,
                   visible, packet, dequeues,
                   mvars, xvars>>

\* media_requests = await media_handler.preprocess(...); _process_url returns
\* None on an empty list
HPrep(w) ==
    /\ pc[w] = "h_prep"
    /\ \E some \in BOOLEAN :
         IF some
           THEN /\ pc' = [pc EXCEPT ![w] = "h_media"]
                /\ exit' = exit
           ELSE /\ pc' = [pc EXCEPT ![w] = "h_finally"]
                /\ exit' = [exit EXCEPT ![w] = "empty"]
    /\ UNCHANGED <<variant, phase, preprocess_tasks, event_queue, reaction_id,
                   visible, packet, dequeues,
                   mvars, xvars>>

\* processed_media = await media_handler.process(requests=...)
HMedia(w) ==
    /\ pc[w] = "h_media"
    /\ pc' = [pc EXCEPT ![w] =
                 IF reaction_id[Item(w)] # NoHandle THEN "h_redact2" ELSE "h_render"]
    /\ UNCHANGED <<variant, phase, preprocess_tasks, event_queue, reaction_id,
                   visible, packet, exit, dequeues,
                   mvars, xvars>>

HMediaFails(w) ==
    /\ pc[w] = "h_media"
    /\ exit' = [exit EXCEPT ![w] = "exception"]
    /\ pc' = [pc EXCEPT ![w] = "h_finally"]
    /\ UNCHANGED <<variant, phase, preprocess_tasks, event_queue, reaction_id,
                   visible, packet, dequeues,
                   mvars, xvars>>

\* if packet.reaction_id: await client.redact(...); packet.reaction_id = None
HRedact2(w) ==
    /\ pc[w] = "h_redact2"
    /\ visible' = Redact(Item(w), reaction_id[Item(w)])
    /\ reaction_id' = [reaction_id EXCEPT ![Item(w)] = NoHandle]
    /\ pc' = [pc EXCEPT ![w] = "h_render"]
    /\ UNCHANGED <<variant, phase, preprocess_tasks, event_queue, packet, exit,
                   dequeues,
                   mvars, xvars>>

\* await display_handler.render_media(...)
HRender(w) ==
    /\ pc[w] = "h_render"
    /\ \E ok \in BOOLEAN :
         exit' = [exit EXCEPT ![w] = IF ok THEN "delivered" ELSE "exception"]
    /\ pc' = [pc EXCEPT ![w] = "h_finally"]
    /\ UNCHANGED <<variant, phase, preprocess_tasks, event_queue, reaction_id,
                   visible, packet, dequeues,
                   mvars, xvars>>

\* wrapper, finally: if packet.reaction_id: await client.redact(...);
\* packet.reaction_id = None.  Runs on return, on an exception and on the
\* CancelledError that wait_for throws into the route action.
HFinally(w) ==
    /\ pc[w] = "h_finally"
    /\ IF reaction_id[Item(w)] # NoHandle
         THEN /\ visible' = Redact(Item(w), reaction_id[Item(w)])
              /\ reaction_id' = [reaction_id EXCEPT ![Item(w)] = NoHandle]
         ELSE UNCHANGED <<visible, reaction_id,
                   mvars, xvars>>
    /\ pc' = [pc EXCEPT ![w] = "finally"]
    /\ UNCHANGED <<variant, phase, preprocess_tasks, event_queue, packet, exit,
                   dequeues,
                   mvars, xvars>>

\* Mutant of Timeout: a route action stuck for good is never cancelled.
TimeoutNotWhenStuck(w) ==
    /\ pc[w] \in RoutePcs \ {"hang"}
    /\ exit[w] # "timeout"
    /\ pc[w] = "h_finally" => reaction_id[packet[w]] # NoHandle
    /\ exit' = [exit EXCEPT ![w] = "timeout"]
    /\ pc' = [pc EXCEPT ![w] =
                 IF variant = "handler" /\ pc[w] # "h_finally"
                   THEN "h_finally" ELSE "finally"]
    /\ UNCHANGED <<variant, phase, preprocess_tasks, event_queue, reaction_id,
                   visible, packet, dequeues,
                   mvars, xvars>>

\* ---- asyncio.wait_for(route action, timeout=ROUTE_EXECUTION_TIMEOUT)
\* The timeout elapses while the route action is suspended at an await: the
\* action is cancelled there, wait_for waits for it to unwind and raises
\* TimeoutError, which the worker logs.  Unwinding runs the wrapper's finally
\* unless the cancelled await is the one inside that finally.
Timeout(w) ==
    /\ pc[w] \in RoutePcs
    /\ exit[w] # "timeout"
    /\ pc[w] = "h_finally" => reaction_id[Item(w)] # NoHandle
    /\ exit' = [exit EXCEPT ![w] = "timeout"]
    /\ pc' = [pc EXCEPT ![w] =
                 IF variant = "handler" /\ pc[w] # "h_finally"
                   THEN "h_finally" ELSE "finally"]
    /\ UNCHANGED <<variant, phase, preprocess_tasks, event_queue, reaction_id,
                   visible, packet, dequeues,
                   mvars, xvars>>

\* The phase a work item ends in, from the way its route action ended.
FinalPhase(e) ==
    CASE e = "delivered" -> "Delivered"
      [] e = "timeout"   -> "TimedOut"
      [] OTHER           -> "Failed"

\* Mutant of Finally: the worker's finally does not redact.
FinallyWithoutRedact(w) ==
    /\ pc[w] = "finally"
    /\ phase' = [phase EXCEPT ![packet[w]] = FinalPhase(exit[w])]
    /\ pc' = [pc EXCEPT ![w] = "get"]
    /\ packet' = [packet EXCEPT ![w] = 0]
    /\ exit' = [exit EXCEPT ![w] = "none"]
    /\ reaction_id' = [reaction_id EXCEPT ![packet[w]] = NoHandle]
    /\ UNCHANGED <<variant, preprocess_tasks, event_queue, visible, dequeues,
                   mvars, xvars>>

\* Mutant of Finally: an item whose route action did not deliver is put back
\* on the queue.
FinallyRequeues(w) ==
    /\ pc[w] = "finally"
    /\ visible' = IF reaction_id[packet[w]] # NoHandle
                    THEN Redact(packet[w], reaction_id[packet[w]])
                    ELSE visible
    /\ IF exit[w] = "delivered" \/ QueueFull(event_queue)
         THEN /\ phase' = [phase EXCEPT ![packet[w]] = FinalPhase(exit[w])]
              /\ event_queue' = event_queue
         ELSE /\ phase' = [phase EXCEPT ![packet[w]] = "Queued"]
              /\ event_queue' = Append(event_queue, packet[w])
    /\ pc' = [pc EXCEPT ![w] = "get"]
    /\ packet' = [packet EXCEPT ![w] = 0]
    /\ exit' = [exit EXCEPT ![w] = "none"]
    /\ reaction_id' = [reaction_id EXCEPT ![packet[w]] = NoHandle]
    /\ UNCHANGED <<variant, preprocess_tasks, dequeues,
                   mvars, xvars>>

\* The worker's finally: if packet.reaction_id: await client.redact(...);
\* event_queue.task_done(); then the loop awaits event_queue.get() again.
\* The packet is dead from here on (the local is rebound by the next get
\* before it is read again), so its fields are not carried further.
Finally(w) ==
    /\ pc[w] = "finally"
    /\ visible' = IF reaction_id[Item(w)] # NoHandle
                    THEN Redact(Item(w), reaction_id[Item(w)])
                    ELSE visible
    /\ phase' = [phase EXCEPT ![Item(w)] = FinalPhase(exit[w])]
    /\ pc' = [pc EXCEPT ![w] = "get"]
    /\ packet' = [packet EXCEPT ![w] = 0]
    /\ exit' = [exit EXCEPT ![w] = "none"]
    /\ reaction_id' = [reaction_id EXCEPT ![Item(w)] = NoHandle]
    /\ task_done' = [task_done EXCEPT ![Item(w)] = @ + 1]
    /\ stale' = [stale EXCEPT ![w] = [item |-> Item(w),
                                      handle |-> reaction_id[Item(w)] # NoHandle]]
    /\ UNCHANGED <<variant, preprocess_tasks, event_queue, dequeues, stopping,
                   mvars, nvars, avars, fvars, tvars, hvars>>

WorkerStep(w) ==
    \/ Dequeue(w)
    \/ RedactQueued(w)
    \/ WorkerReact(w)
    \/ WorkerReactFails(w)
    \/ XMedia(w)
    \/ XMediaFails(w)
    \/ XRedact(w)
    \/ XRender(w)
    \/ HRedact(w)
    \/ HReact(w)
    \/ HReactFails(w)
    \/ HPrep(w)
    \/ HMedia(w)
    \/ HMediaFails(w)
    \/ HRedact2(w)
    \/ HRender(w)
    \/ HFinally(w)
    \/ Timeout(w)
    \/ Finally(w)

Next ==
    \/ \E i \in Items : Submit(i)
    \/ \E i \in Items : PreStart(i)
    \/ \E i \in Items : PreReject(i)
    \/ \E i \in Items : PreEnqueue(i)
    \/ \E w \in Workers : WorkerStep(w)
    \/ \E w \in Workers : RouteHangs(w)

Spec == Init /\ [][Next]_vars

\* ------------------------------------------------- failing redacts, shutdown
\* await client.redact(event_id=packet.reaction_id) after the get raises: the
\* worker's `except Exception` logs it, the finally follows.
RedactQueuedFails(w) ==
    /\ pc[w] = "redact_queued"
    /\ pc' = [pc EXCEPT ![w] = "finally"]
    /\ exit' = [exit EXCEPT ![w] = "exception"]
    /\ UNCHANGED <<variant, phase, preprocess_tasks, event_queue, reaction_id,
                   visible, packet, dequeues,
                   mvars, xvars>>

\* The redact inside the worker's finally raises: nothing encloses the
\* finally, the exception leaves the `while True` and the task ends.
\* task_done() is not reached and the indicator stays.
FinallyRedactFails(w) ==
    /\ pc[w] = "finally"
    /\ reaction_id[Item(w)] # NoHandle
    /\ phase' = [phase EXCEPT ![Item(w)] = FinalPhase(exit[w])]
    /\ pc' = [pc EXCEPT ![w] = "ended"]
    /\ packet' = [packet EXCEPT ![w] = 0]
    /\ exit' = [exit EXCEPT ![w] = "none"]
    /\ stale' = [stale EXCEPT ![w] = [item |-> Item(w), handle |-> TRUE]]
    /\ UNCHANGED <<variant, preprocess_tasks, event_queue, reaction_id, visible,
                   dequeues, stopping, task_done,
                   mvars, nvars, avars, fvars, tvars, hvars>>

\* Manager.stop: task.cancel() for every worker task, then gather.
Stop ==
    /\ ~stopping
    /\ stopping' = TRUE
    /\ UNCHANGED <<dvars, stale, task_done, mvars, nvars, avars, fvars, tvars, hvars>>

\* The CancelledError reaches worker w at the await it is suspended in:
\* `except asyncio.CancelledError: raise`, then the finally, then the task
\* ends.  The finally reads the local `packet`.  At the get of the first turn
\* it is unbound and the finally raises UnboundLocalError.  At the get of a
\* later turn it is still the packet of the turn before: its reaction_id is
\* redacted again when it is still set, and task_done() is called once more.
\* With an item in hand the finally redacts its indicator and calls
\* task_done().  Inside the redact of the finally itself the error leaves at
\* once.  A redact of the finally that raises skips task_done().
Cancelled(w) ==
    /\ stopping
    /\ pc[w] # "ended"
    /\ pc[w] = "finally" => reaction_id[Item(w)] # NoHandle
    /\ pc' = [pc EXCEPT ![w] = "ended"]
    /\ packet' = [packet EXCEPT ![w] = 0]
    /\ exit' = [exit EXCEPT ![w] = "none"]
    /\ CASE pc[w] = "get" ->
              /\ IF stale[w].item = 0 THEN UNCHANGED task_done
                 ELSE \/ task_done' = [task_done EXCEPT ![stale[w].item] = @ + 1]
                      \/ stale[w].handle /\ UNCHANGED task_done
              /\ UNCHANGED <<phase, visible, stale>>
         [] pc[w] = "finally" ->
              /\ phase' = [phase EXCEPT ![Item(w)] = FinalPhase(exit[w])]
              /\ stale' = [stale EXCEPT ![w] = [item |-> Item(w), handle |-> TRUE]]
              /\ UNCHANGED <<visible, task_done>>
         [] OTHER ->
              /\ phase' = [phase EXCEPT ![Item(w)] = "Failed"]
              /\ stale' = [stale EXCEPT ![w] =
                              [item |-> Item(w),
                               handle |-> reaction_id[Item(w)] # NoHandle]]
              /\ \/ /\ visible' = IF reaction_id[Item(w)] # NoHandle
                                     THEN Redact(Item(w), reaction_id[Item(w)])
                                     ELSE visible
                    /\ task_done' = [task_done EXCEPT ![Item(w)] = @ + 1]
                 \/ /\ reaction_id[Item(w)] # NoHandle
                    /\ UNCHANGED <<visible, task_done>>
    /\ UNCHANGED <<variant, preprocess_tasks, event_queue, reaction_id, dequeues,
                   stopping, mvars, nvars, avars, fvars, tvars, hvars>>

\* A finally with no indicator to redact does not suspend: it runs to the
\* next get also when the task has been cancelled meanwhile.
FinallyUnsuspended(w) ==
    /\ stopping
    /\ pc[w] = "finally"
    /\ reaction_id[Item(w)] = NoHandle
    /\ Finally(w)

NextShutdown ==
    \/ ~stopping /\ Next
    \/ ~stopping /\ \E w \in Workers : RedactQueuedFails(w)
    \/ ~stopping /\ \E w \in Workers : FinallyRedactFails(w)
    \/ Stop
    \/ \E w \in Workers : Cancelled(w)
    \/ \E w \in Workers : FinallyUnsuspended(w)

SpecShutdown == Init /\ [][NextShutdown]_vars

\* ============================================================ media pipeline
\* MediaHandler.preprocess and .process take one url through
\* MediaProcessor.create_media_request and .process_request.  The outside
\* world - yt-dlp, ffmpeg, the http client - answers nondeterministically;
\* `calls` records which of them was asked anything.

\* config.file.max_duration and config.file.max_in_memory_file_size
max_duration == 2
max_in_memory_file_size == 2

\* str.lower() on the host labels in use
Lower(l) == IF l = "EX" THEN "ex" ELSE IF l = "Tube" THEN "tube" ELSE l

\* The netlocs requests are made for.
Netlocs ==
    { [labels |-> h, port |-> p] :
        h \in { <<"ex", "com">>, <<"www", "EX", "com">>, <<"Tube", "io">>,
                <<"img", "io">>, <<"old", "net">>, <<"nil", "net">>,
                <<"nf", "io">>, <<"else", "org">>, <<"localhost">> },
        p \in BOOLEAN }

\* _get_domain: urlparse(url).netloc.split(":")[0] drops the port, then the
\* last two labels, lower-cased.  A domain is kept as its labels.
GetDomain(u) ==
    LET l == u.labels
        n == Len(l)
        last == IF n <= 2 THEN l ELSE <<l[n - 1], l[n]>>
    IN [k \in 1..Len(last) |-> Lower(last[k])]

\* config.platforms
platforms ==
    << [domain |-> <<"ex", "com">>,   config_key |-> "advanced"],
       [domain |-> <<"tube", "io">>,  config_key |-> ""],
       [domain |-> <<"img", "io">>,   config_key |-> "simple"],
       [domain |-> <<"old", "net">>,  config_key |-> "gone"],
       [domain |-> <<"nil", "net">>,  config_key |-> "blank"],
       [domain |-> <<"nf", "io">>,    config_key |-> "noformats"],
       [domain |-> <<"tube", "io">>,  config_key |-> "advanced"],
       [domain |-> <<"ex", "com">>,   config_key |-> "simple"] >>

AdvancedProfile ==
    [name |-> "advanced", ytdlp |-> TRUE, ytdlp_formats |-> <<"best", "worst", "bestaudio">>]
SimpleProfile ==
    [name |-> "simple", ytdlp |-> FALSE, ytdlp_formats |-> <<>>]
NoFormatsProfile ==
    [name |-> "noformats", ytdlp |-> TRUE, ytdlp_formats |-> <<>>]

\* The profiles every configuration has; "gone" has none, "blank" is {}.
BaseProfiles(k) ==
    CASE k = "advanced" -> AdvancedProfile
      [] k = "simple" -> SimpleProfile
      [] k = "noformats" -> NoFormatsProfile
      [] OTHER -> PyNone

\* config.platform_configs, with the reserved "query" profile set, empty or
\* missing.
PlatformConfigChoices ==
    { [k \in {"advanced", "simple", "noformats", "blank"} |-> BaseProfiles(k)],
      [k \in {"advanced", "simple", "noformats", "blank", "query"} |->
          IF k = "query" THEN PyNone ELSE BaseProfiles(k)],
      [k \in {"advanced", "simple", "noformats", "blank", "query"} |->
          IF k = "query" THEN AdvancedProfile ELSE BaseProfiles(k)] }

ConfigChoices ==
    [ enable_livestream_previews : BOOLEAN,
      enable_thumbnail_fallback_if_duration_or_size_exceeds : BOOLEAN,
      enable_thumbnail_generation : BOOLEAN,
      enable_normalize_videos_to_mp4 : BOOLEAN,
      enable_normalize_audio_to_mp3 : BOOLEAN ]

\* `not d` for a dict or None
Falsy(d) == DOMAIN d = {}

\* dict.get(key, {})
DictGet(d, key) == IF key \in DOMAIN d THEN d[key] ELSE PyNone

\* The for loop of _get_platform_config: the key of the first entry whose
\* domain matches, "" when there is none.
RECURSIVE FirstConfigKey(_, _)
FirstConfigKey(k, domain) ==
    IF k > Len(platforms) THEN ""
    ELSE IF platforms[k].domain = domain THEN platforms[k].config_key
    ELSE FirstConfigKey(k + 1, domain)

\* _get_platform_config
GetPlatformConfig(domain, qd) ==
    LET config_key == IF qd THEN "query" ELSE FirstConfigKey(1, domain) IN
    IF config_key = "" THEN PyNone
    ELSE LET found == DictGet(platform_configs, config_key) IN
         IF Falsy(found) THEN PyNone ELSE found

\* What a yt-dlp query can print: a number 0 stands for a key that is absent
\* or null, as both fail `if duration and ...`.
QueryJsons ==
    [ is_live : BOOLEAN,
      duration : 0..(max_duration + 1),
      filesize_approx : 0..(max_in_memory_file_size + 1),
      thumbnail : BOOLEAN,
      webpage_url : {"u"} ]

\* ytdlp_dict["selected_format"] = format
WithFormat(json, format) ==
    [k \in DOMAIN json \cup {"selected_format"} |->
        IF k = "selected_format" THEN format ELSE json[k]]

\* return {"error": error_message}
ErrorDict == [error |-> "403"]

InitMedia ==
    /\ InitDispatch
    /\ NativeIdle
    /\ AdapterIdle
    /\ FilenameIdle
    /\ TranscodeIdle
    /\ HandlerIdle
    /\ variant = "executor"
    /\ url \in Netlocs
    /\ query_derived \in BOOLEAN
    /\ platform_configs \in PlatformConfigChoices
    /\ config \in {c \in ConfigChoices : /\ c.enable_normalize_videos_to_mp4
                                          /\ c.enable_normalize_audio_to_mp3}
    /\ mpc = "create"
    /\ platform_config = PyNone
    /\ command_index = 0
    /\ ytdlp_metadata = PyNone
    /\ request = "unset"
    /\ calls = {}
    /\ fallback = FALSE
    /\ artifact = "none"
    /\ modifier = "none"
    /\ remote = [media_len |-> 1, media_type |-> "video", thumbnail_len |-> 1]
    /\ data = NoData
    /\ content = NoFile
    /\ thumbnail = NoFile
    /\ normalize = "none"
    /\ commands = <<>>

\* create_media_request returns None: the request ends here.
NoRequest ==
    /\ request' = "None"
    /\ mpc' = "end"

\* return MediaRequest(...): MediaHandler.process hands it to process_request.
MakeRequest(metadata) ==
    /\ ytdlp_metadata' = metadata
    /\ request' = "MediaRequest"
    /\ mpc' = "process"

\* create_ytdlp_commands: the selected_format of the commands, one command
\* per format of the profile, a single one when audio only is forced.
Commands ==
    IF platform_config.ytdlp_formats = <<>> THEN <<>>
    ELSE IF modifier = "force_audio_only" THEN <<"audio_only">>
    ELSE platform_config.ytdlp_formats

\* Mutant of CreateMediaRequest: a lookup miss falls back on a default profile.
CreateMediaRequestDefaultProfile ==
    /\ mpc = "create"
    /\ LET found == GetPlatformConfig(GetDomain(url), query_derived) IN
         platform_config' = IF Falsy(found) THEN AdvancedProfile ELSE found
    /\ mpc' = "metadata"
    /\ UNCHANGED <<url, query_derived, platform_configs, config, command_index,
                   ytdlp_metadata, request, calls, fallback, artifact, modifier, remote,
                   data, content, thumbnail, normalize, commands,
                   dvars, xvars>>

\* create_media_request up to _handle_cookies, which reads and writes a file
\* under /tmp and nothing else.
CreateMediaRequest ==
    /\ mpc = "create"
    /\ LET found == GetPlatformConfig(GetDomain(url), query_derived) IN
         IF Falsy(found)
           THEN /\ NoRequest
                /\ UNCHANGED platform_config
           ELSE /\ platform_config' = found
                /\ mpc' = "metadata"
                /\ UNCHANGED request
    /\ UNCHANGED <<url, query_derived, platform_configs, config, command_index,
                   ytdlp_metadata, calls, fallback, artifact, modifier, remote,
                   data, content, thumbnail, normalize, commands,
                   dvars, xvars>>

\* _get_media_request_metadata: "N/A" without yt-dlp; with it
\* _query_advanced_media builds the query commands and create_ytdlp_commands
\* raises when the profile has no format ("invalid").
GetMediaRequestMetadata ==
    /\ mpc = "metadata"
    /\ IF ~platform_config.ytdlp
         THEN /\ MakeRequest(PyNone)
              /\ UNCHANGED command_index
         ELSE IF platform_config.ytdlp_formats = <<>>
           THEN /\ NoRequest
                /\ UNCHANGED <<command_index, ytdlp_metadata>>
           ELSE /\ mpc' = "query"
                /\ command_index' = 1
                /\ UNCHANGED <<request, ytdlp_metadata>>
    /\ UNCHANGED <<url, query_derived, platform_configs, config, platform_config,
                   calls, fallback, artifact, modifier, remote,
                   data, content, thumbnail, normalize, commands,
                   dvars, xvars>>

\* One turn of the loop of ytdlp_execute_query.  "spawn": the subprocess
\* could not be created; in the first turn `process` is then unbound in the
\* finally and the error leaves the loop.  "forbidden": exit code not 0 with
\* 403 in stderr.  "failed": any other failure, empty output or empty json.
YtdlpQueryCommand ==
    /\ mpc = "query"
    /\ command_index <= Len(Commands)
    /\ calls' = calls \cup {"ytdlp_query"}
    /\ \E outcome \in {"spawn", "failed", "forbidden", "json"} :
         CASE outcome = "spawn" /\ command_index = 1 ->
                /\ NoRequest
                /\ UNCHANGED <<command_index, ytdlp_metadata>>
           [] outcome = "forbidden" ->
                /\ MakeRequest(ErrorDict)
                /\ UNCHANGED command_index
           [] outcome = "json" ->
                /\ \E json \in QueryJsons :
                     MakeRequest(WithFormat(json, Commands[command_index]))
                /\ UNCHANGED command_index
           [] OTHER ->
                /\ command_index' = command_index + 1
                /\ UNCHANGED <<mpc, request, ytdlp_metadata>>
    /\ UNCHANGED <<url, query_derived, platform_configs, config, platform_config,
                   fallback, artifact, modifier, remote,
                   data, content, thumbnail, normalize, commands,
                   dvars, xvars>>

\* raise RuntimeError("No valid yt-dlp query command succeeded."), which
\* _query_advanced_media turns into None and the caller into "invalid".
YtdlpQueryExhausted ==
    /\ mpc = "query"
    /\ command_index > Len(Commands)
    /\ NoRequest
    /\ UNCHANGED <<url, query_derived, platform_configs, config, platform_config,
                   command_index, ytdlp_metadata, calls, fallback, artifact, modifier, remote,
                   data, content, thumbnail, normalize, commands,
                   dvars, xvars>>

\* config.file.max_audio_only_duration
max_audio_only_duration == 1

\* What http.get serves for the url itself and for the thumbnail url of the
\* metadata; a thumbnail is an image.
RemoteMedia == [len |-> remote.media_len, type |-> remote.media_type]
RemoteThumbnail == [len |-> remote.thumbnail_len, type |-> "image"]

\* _download_simple_media: what client_download hands over, or None when it
\* raises - a failed request, or a body longer than max_in_memory_file_size.
FetchOutcomes(body) ==
    {NoData} \cup (IF body.len <= max_in_memory_file_size THEN {body} ELSE {})

\* _primary_media_controller without yt-dlp: _download_simple_media.
PrimarySimple ==
    /\ mpc = "process"
    /\ ~platform_config.ytdlp
    /\ calls' = calls \cup {"http"}
    /\ \E d \in FetchOutcomes(RemoteMedia) :
         /\ data' = d
         /\ mpc' = IF d = NoData THEN "end" ELSE "post"
    /\ UNCHANGED <<url, query_derived, platform_configs, config, platform_config,
                   command_index, ytdlp_metadata, request, fallback, artifact,
                   modifier, remote, content, thumbnail, normalize, commands,
                   dvars, xvars>>

\* ytdlp_metadata.get(key) on a number, None when the key is absent
NumGet(d, key) == IF key \in DOMAIN d THEN d[key] ELSE 0
\* ytdlp_metadata.get(key) on a flag
FlagGet(d, key) == key \in DOMAIN d /\ d[key]

\* _attempt_thumbnail_fallback: fetch ytdlp_metadata["thumbnail"] if any
ThumbnailFallback ==
    /\ fallback' = TRUE
    /\ IF FlagGet(ytdlp_metadata, "thumbnail")
         THEN /\ calls' = calls \cup {"http"}
              /\ \E d \in FetchOutcomes(RemoteThumbnail) :
                   /\ data' = d
                   /\ mpc' = IF d = NoData THEN "end" ELSE "post"
         ELSE /\ mpc' = "end"
              /\ UNCHANGED <<calls, data>>

\* Mutant of OverLimit: the limits are not enforced.
OverLimitIgnored ==
    /\ mpc' = "download"
    /\ UNCHANGED <<calls, fallback, data>>

\* The duration or size limit is exceeded.
OverLimit ==
    IF config.enable_thumbnail_fallback_if_duration_or_size_exceeds
      THEN ThumbnailFallback
      ELSE /\ mpc' = "end"
           /\ UNCHANGED <<calls, fallback, data>>

\* Mutant of DurationLimit: the modifier is not looked at.
DurationLimitOfVideo == max_duration

\* max_duration of _download_advanced_media
DurationLimit ==
    IF modifier = "force_audio_only" THEN max_audio_only_duration
    ELSE max_duration

\* Mutant of IsLive: the flag is not looked at.
IsLiveIgnored(d) == FALSE

\* if ytdlp_metadata.get("is_live")
IsLive(d) == FlagGet(d, "is_live")

\* Mutant of PromoteFormat: the command of the query's format changes places
\* with the first one.
PromoteFormatSwap(cmds, query_format) ==
    LET ks == {k \in 1..Len(cmds) : cmds[k] = query_format} IN
      IF ks = {} THEN cmds
      ELSE LET k == CHOOSE x \in ks : \A y \in ks : x <= y IN
             [n \in 1..Len(cmds) |->
                IF n = 1 THEN cmds[k] ELSE IF n = k THEN cmds[1] ELSE cmds[n]]

\* priority_command = next(cmd for cmd in commands if cmd["selected_format"]
\* == query_format, None); commands.remove(priority_command);
\* commands.insert(0, priority_command)
PromoteFormat(cmds, query_format) ==
    LET ks == {k \in 1..Len(cmds) : cmds[k] = query_format} IN
      IF ks = {} THEN cmds
      ELSE LET k == CHOOSE x \in ks : \A y \in ks : x <= y IN
             <<cmds[k]>> \o SubSeq(cmds, 1, k - 1) \o SubSeq(cmds, k + 1, Len(cmds))

\* Mutant of DownloadAdvancedMedia: the format is read with .get() and the
\* download commands are built for any metadata.
DownloadAdvancedMediaAnyMetadata ==
    /\ mpc = "process"
    /\ platform_config.ytdlp
    /\ ~Falsy(ytdlp_metadata)
    /\ mpc' = "download"
    /\ command_index' = 1
    /\ commands' = Commands
    /\ UNCHANGED <<calls, fallback, data>>
    /\ UNCHANGED <<url, query_derived, platform_configs, config, platform_config,
                   ytdlp_metadata, request, artifact, modifier, remote, content,
                   thumbnail, normalize, dvars, xvars>>

\* _primary_media_controller with yt-dlp: _download_advanced_media up to the
\* download commands.  capture_livestream raises on an ffmpeg error and on an
\* output longer than max_in_memory_file_size.
\* ytdlp_metadata["selected_format"] raises KeyError on a dict without the
\* key; the outer except returns (None, False).
DownloadAdvancedMedia ==
    /\ mpc = "process"
    /\ platform_config.ytdlp
    /\ ~Falsy(ytdlp_metadata)
    /\ IF IsLive(ytdlp_metadata)
         THEN /\ IF config.enable_livestream_previews
                   THEN /\ calls' = calls \cup {"capture_livestream"}
                        /\ \E d \in FetchOutcomes([RemoteMedia EXCEPT !.type = "video"]) :
                             /\ data' = d
                             /\ mpc' = IF d = NoData THEN "end" ELSE "post"
                   ELSE /\ mpc' = "end"
                        /\ UNCHANGED <<calls, data>>
              /\ UNCHANGED <<fallback, command_index, commands>>
         ELSE IF NumGet(ytdlp_metadata, "duration") > DurationLimit
           THEN OverLimit /\ UNCHANGED <<command_index, commands>>
         ELSE IF NumGet(ytdlp_metadata, "filesize_approx") > max_in_memory_file_size
           THEN OverLimit /\ UNCHANGED <<command_index, commands>>
         ELSE IF "selected_format" \notin DOMAIN ytdlp_metadata
           THEN /\ mpc' = "end"
                /\ UNCHANGED <<calls, fallback, command_index, data, commands>>
           ELSE /\ mpc' = "download"
                /\ command_index' = 1
                /\ commands' = PromoteFormat(Commands, ytdlp_metadata.selected_format)
                /\ UNCHANGED <<calls, fallback, data>>
    /\ UNCHANGED <<url, query_derived, platform_configs, config, platform_config,
                   ytdlp_metadata, request, artifact, modifier, remote, content,
                   thumbnail, normalize, dvars, xvars>>

\* One turn of the loop of ytdlp_execute_download: the file, a failure that
\* moves on to the next command, or a 403 that breaks out of the loop.
YtdlpDownloadCommand ==
    /\ mpc = "download"
    /\ command_index <= Len(commands)
    /\ calls' = calls \cup {"ytdlp_download"}
    /\ \E outcome \in {"file", "failed", "forbidden"} :
         CASE outcome = "file" ->
                mpc' = "post" /\ data' = RemoteMedia /\ UNCHANGED command_index
           [] outcome = "forbidden" ->
                mpc' = "end" /\ UNCHANGED <<command_index, data>>
           [] OTHER ->
                command_index' = command_index + 1 /\ UNCHANGED <<mpc, data>>
    /\ UNCHANGED <<url, query_derived, platform_configs, config, platform_config,
                   ytdlp_metadata, request, fallback, artifact, modifier, remote,
                   content, thumbnail, normalize, commands,
                   dvars, xvars>>

\* raise RuntimeError("No valid yt-dlp download command succeeded.")
YtdlpDownloadExhausted ==
    /\ mpc = "download"
    /\ command_index > Len(commands)
    /\ mpc' = "end"
    /\ UNCHANGED <<url, query_derived, platform_configs, config, platform_config,
                   command_index, ytdlp_metadata, request, calls, fallback,
                   artifact, modifier, remote, data, content, thumbnail, normalize, commands,
                   dvars, xvars>>

\* Mutant of CreateMediaObject: size is taken from the metadata of yt-dlp.
CreateMediaObjectDeclaredSize(stream, other_metadata) ==
    [ origin |-> other_metadata.origin,
      media_type |-> IF other_metadata.origin = "thumbnail" THEN "image"
                     ELSE stream.type,
      stream |-> stream.len,
      size |-> NumGet(ytdlp_metadata, "filesize_approx"),
      thumbnail_url |-> other_metadata.thumbnail,
      meta_size |-> other_metadata.meta_size,
      meta_duration |-> other_metadata.meta_duration,
      closed |-> FALSE,
      closes |-> 0 ]

\* _create_media_object: MediaFile(stream=BytesIO(stream), metadata=MediaInfo(
\* size=len(stream), media_type=type_, ...)).  `stream` is the byte count of
\* the BytesIO, `closed` and `closes` follow its close() calls.
CreateMediaObject(stream, other_metadata) ==
    [ origin |-> other_metadata.origin,
      media_type |-> IF other_metadata.origin = "thumbnail" THEN "image"
                     ELSE stream.type,
      stream |-> stream.len,
      size |-> stream.len,
      thumbnail_url |-> other_metadata.thumbnail,
      meta_size |-> other_metadata.meta_size,
      meta_duration |-> other_metadata.meta_duration,
      closed |-> FALSE,
      closes |-> 0 ]

\* Mutant of ProcessSimpleMedia: the artifact is tagged as the downloader's.
ProcessSimpleMediaAsAdvanced(d) ==
    CreateMediaObject(d, [origin |-> "advanced", thumbnail |-> TRUE,
                          meta_size |-> 0, meta_duration |-> 0])

\* _process_simple_media
ProcessSimpleMedia(d) ==
    CreateMediaObject(d, [origin |-> "simple", thumbnail |-> FALSE,
                          meta_size |-> 0, meta_duration |-> 0])

\* Mutant of ProcessAdvancedMedia: a thumbnail fallback is not told apart.
ProcessAdvancedMediaUntagged(d, is_thumbnail_fallback) ==
    CreateMediaObject(d, [origin |-> "advanced",
                          thumbnail |-> FlagGet(ytdlp_metadata, "thumbnail"),
                          meta_size |-> 0, meta_duration |-> 0])

\* _process_advanced_media
ProcessAdvancedMedia(d, is_thumbnail_fallback) ==
    IF is_thumbnail_fallback
      THEN CreateMediaObject(d,
             [origin |-> "advanced-thumbnail-fallback", thumbnail |-> FALSE,
              meta_size |-> NumGet(ytdlp_metadata, "filesize_approx"),
              meta_duration |-> NumGet(ytdlp_metadata, "duration")])
      ELSE CreateMediaObject(d,
             [origin |-> "advanced",
              thumbnail |-> FlagGet(ytdlp_metadata, "thumbnail"),
              meta_size |-> 0, meta_duration |-> 0])

\* _process_thumbnail_media
ProcessThumbnailMedia(d) ==
    CreateMediaObject(d, [origin |-> "thumbnail", thumbnail |-> FALSE,
                          meta_size |-> 0, meta_duration |-> 0])

\* The condition of the video branch of _post_process, as Python reads it:
\* `and` binds tighter than `or`.
NormalizeVideoApplies(type_) ==
    type_ = "video" \/ (type_ = "application" /\ modifier # "force_audio_only")

\* elif type_ == "audio" and not platform_config["ytdlp"]
NormalizeAudioApplies(type_) ==
    type_ = "audio" /\ ~platform_config.ytdlp

\* Which normalizing _post_process calls for bytes of this type, "none" when
\* the branch taken has its switch off or no branch is taken.
Normalization(type_) ==
    IF NormalizeVideoApplies(type_)
      THEN IF config.enable_normalize_videos_to_mp4 THEN "video" ELSE "none"
    ELSE IF NormalizeAudioApplies(type_)
      THEN IF config.enable_normalize_audio_to_mp3 THEN "audio" ELSE "none"
    ELSE "none"

\* What the transcode call hands back when it does not raise: bytes of the
\* canonical container, no longer than max_in_memory_file_size.
Normalized(d, kind) ==
    IF kind = "none" THEN {d}
    ELSE {[len |-> n, type |-> kind] : n \in 1..max_in_memory_file_size}

\* _post_process, then _process_simple_media or _process_advanced_media.
\* Everything is inside one try: when the normalizing call raises, when
\* extract_metadata refuses bytes longer than max_in_memory_file_size or the
\* probe fails, _post_process returns None and the controller returns None.
PostProcess ==
    /\ mpc = "post"
    /\ calls' = calls \cup {"ffmpeg"}
    /\ LET kind == Normalization(data.type) IN
         \/ /\ kind # "none"
            /\ normalize' = IF kind = "video" THEN "video_failed" ELSE "audio_failed"
            /\ mpc' = "end"
            /\ UNCHANGED <<data, content, artifact>>
         \/ \E out \in Normalized(data, kind) :
              /\ normalize' = kind
              /\ data' = out
              /\ \/ /\ mpc' = "end"
                    /\ UNCHANGED <<content, artifact>>
                 \/ /\ out.len <= max_in_memory_file_size
                    /\ content' = IF platform_config.ytdlp
                                    THEN ProcessAdvancedMedia(out, fallback)
                                    ELSE ProcessSimpleMedia(out)
                    /\ artifact' = "primary"
                    /\ mpc' = "thumbnail"
    /\ UNCHANGED <<url, query_derived, platform_configs, config, platform_config,
                   command_index, ytdlp_metadata, request, fallback, modifier,
                   remote, thumbnail, commands, dvars, xvars>>

\* Mutant of DelMediaFile: the stream is left as it is.
DelMediaFileNothing(f) == f

\* MediaFile.__del__, run when the last reference to the object goes: close
\* the stream unless it is closed.
DelMediaFile(f) ==
    IF f = NoFile \/ f.closed THEN f
    ELSE [f EXCEPT !.closed = TRUE, !.closes = @ + 1]

\* stream.close()
CloseStream(f) ==
    IF f = NoFile THEN f ELSE [f EXCEPT !.closed = TRUE, !.closes = @ + 1]

\* _thumbnail_media_controller, then process_request returns Media(...).
\* The thumbnail of the metadata is fetched and probed for an advanced
\* artifact that has one.  Failing that, and unless audio only is forced, a
\* frame is cut from a video when enable_thumbnail_generation is set:
\* extract_thumbnail raises when ffmpeg fails or the frame is too long, and
\* nothing on the way up to MediaHandler.process catches it, where the
\* request is logged as failed and its Media is gone.
ThumbnailMediaController ==
    /\ mpc = "thumbnail"
    /\ \E fetched \in FetchOutcomes(RemoteThumbnail), probed \in BOOLEAN,
          frame \in {"raise", "nothing", "bytes", "unprobed"} :
         LET has_url == content.origin = "advanced" /\ content.thumbnail_url
             got == has_url /\ fetched # NoData
             first == got /\ probed
             cut == /\ ~first
                    /\ modifier # "force_audio_only"
                    /\ content.media_type = "video"
                    /\ config.enable_thumbnail_generation
         IN /\ calls' = calls \cup (IF has_url THEN {"http_thumbnail"} ELSE {})
                              \cup (IF got THEN {"ffmpeg"} ELSE {})
                              \cup (IF cut THEN {"extract_thumbnail"} ELSE {})
            /\ IF first
                 THEN /\ thumbnail' = ProcessThumbnailMedia(fetched)
                      /\ artifact' = "primary+thumbnail"
                      /\ mpc' = "done"
                      /\ UNCHANGED content
               ELSE IF cut /\ frame = "raise"
                 THEN /\ mpc' = "failed"
                      /\ content' = DelMediaFile(content)
                      /\ UNCHANGED <<thumbnail, artifact>>
               ELSE IF cut /\ frame = "bytes"
                 THEN /\ thumbnail' = ProcessThumbnailMedia([len |-> 1, type |-> "image"])
                      /\ artifact' = "primary+thumbnail"
                      /\ mpc' = "done"
                      /\ UNCHANGED content
               ELSE /\ mpc' = "done"
                    /\ UNCHANGED <<thumbnail, content, artifact>>
    /\ UNCHANGED <<url, query_derived, platform_configs, config, platform_config,
                   command_index, ytdlp_metadata, request, fallback, modifier,
                   remote, data, normalize, commands,
                   dvars, xvars>>

\* MediaHandler._upload_media and the rest of the loop body of
\* MediaHandler.process: the content is uploaded, then the thumbnail if there
\* is one; the finally closes both streams whatever happened, and the Media
\* is let go at the end of the turn.
UploadMedia ==
    /\ mpc = "done"
    /\ calls' = calls \cup {"upload"}
    /\ \E ok \in BOOLEAN : mpc' = IF ok THEN "uploaded" ELSE "upload_failed"
    /\ content' = DelMediaFile(CloseStream(content))
    /\ thumbnail' = DelMediaFile(CloseStream(thumbnail))
    /\ UNCHANGED <<url, query_derived, platform_configs, config, platform_config,
                   command_index, ytdlp_metadata, request, fallback, artifact,
                   modifier, remote, data, normalize, commands,
                   dvars, xvars>>

\* The route timeout cancels the task at the await it is suspended in.  In
\* _upload_media the finally closes the streams; anywhere else the MediaFile
\* objects go with the frames that held them.
MediaCancelled ==
    /\ mpc \in {"query", "process", "download", "post", "thumbnail", "done"}
    /\ mpc' = "cancelled"
    /\ content' = DelMediaFile(IF mpc = "done" THEN CloseStream(content) ELSE content)
    /\ thumbnail' = DelMediaFile(IF mpc = "done" THEN CloseStream(thumbnail)
                                 ELSE thumbnail)
    /\ UNCHANGED <<url, query_derived, platform_configs, config, platform_config,
                   command_index, ytdlp_metadata, request, calls, fallback,
                   artifact, modifier, remote, data, normalize, commands,
                   dvars, xvars>>

NextMedia ==
    \/ CreateMediaRequest
    \/ GetMediaRequestMetadata
    \/ YtdlpQueryCommand
    \/ YtdlpQueryExhausted
    \/ PrimarySimple
    \/ DownloadAdvancedMedia
    \/ YtdlpDownloadCommand
    \/ YtdlpDownloadExhausted
    \/ PostProcess
    \/ ThumbnailMediaController

SpecMedia == InitMedia /\ [][NextMedia]_vars

\* The urls whose resolution is followed to its end: one with the yt-dlp
\* profile, one with the plain one.
ResolvedNetlocs ==
    { [labels |-> <<"ex", "com">>, port |-> FALSE],
      [labels |-> <<"img", "io">>, port |-> FALSE] }

\* One request resolved, uploaded or cancelled, for every modifier, switch
\* setting and remote content.
InitResolve ==
    /\ InitDispatch
    /\ NativeIdle
    /\ AdapterIdle
    /\ FilenameIdle
    /\ TranscodeIdle
    /\ HandlerIdle
    /\ variant = "executor"
    /\ url \in ResolvedNetlocs
    /\ query_derived = FALSE
    /\ platform_configs =
          [k \in {"advanced", "simple", "noformats", "blank"} |-> BaseProfiles(k)]
    /\ config \in ConfigChoices
    /\ mpc = "create"
    /\ platform_config = PyNone
    /\ command_index = 0
    /\ ytdlp_metadata = PyNone
    /\ request = "unset"
    /\ calls = {}
    /\ fallback = FALSE
    /\ artifact = "none"
    /\ modifier \in {"none", "force_audio_only"}
    /\ remote \in [ media_len : {1, max_in_memory_file_size + 1},
                    media_type : {"video", "audio", "image", "application"},
                    thumbnail_len : {1, max_in_memory_file_size + 1} ]
    /\ data = NoData
    /\ content = NoFile
    /\ thumbnail = NoFile
    /\ normalize = "none"
    /\ commands = <<>>

NextResolve ==
    \/ NextMedia
    \/ UploadMedia
    \/ MediaCancelled

SpecResolve == InitResolve /\ [][NextResolve]_vars

\* The event loop runs every task that is ready, a transport call that was
\* made completes, and the timer of wait_for fires: a worker that can take a
\* step eventually takes one.  Nothing obliges events to arrive or a route
\* action to get stuck.
FairSpec == Spec /\ \A w \in Workers : WF_vars(WorkerStep(w))

\* ------------------------------------------------------- client_download
\* Bounds of the responses drawn: chunks per body, bytes per chunk, and the
\* max_retries of the config.
MaxChunks == 3
MaxChunkLen == 2
MaxRetries == 2

\* The bodies a response can be cut into by iter_chunked.
RECURSIVE ChunkSeqs(_)
ChunkSeqs(n) ==
    IF n = 0 THEN {<<>>}
    ELSE ChunkSeqs(n - 1) \cup
         {Append(q, c) : q \in {r \in ChunkSeqs(n - 1) : Len(r) = n - 1},
                         c \in 1..MaxChunkLen}

\* One client_download call: either version, the cap off or on.  The services
\* version has max_retries = 1, the other reads it from the config.
InitNative ==
    /\ InitDispatch
    /\ variant = "executor"
    /\ MediaIdle
    /\ AdapterIdle
    /\ FilenameIdle
    /\ TranscodeIdle
    /\ HandlerIdle
    /\ n_variant \in {"services", "media_utils"}
    /\ n_pc = "get"
    /\ n_cap \in {0, max_in_memory_file_size}
    /\ n_retries \in (IF n_variant = "services" THEN {1} ELSE 1..MaxRetries)
    /\ n_attempt = 1
    /\ n_chunks = <<>>
    /\ n_total = 0
    /\ n_output = 0
    /\ n_result = -1

\* Mutant of SizeExceeded: the cap is tested one byte late.
SizeExceededOneLate(total_bytes, max_file_size) ==
    max_file_size > 0 /\ total_bytes > max_file_size + 1

\* if max_file_size > 0 and total_bytes > max_file_size
SizeExceeded(total_bytes, max_file_size) ==
    max_file_size > 0 /\ total_bytes > max_file_size

\* response = await self.http.get(url): it raises, which the except logs
\* before the sleep; or the status is not 200 and `continue` goes to the next
\* attempt at once; or the body starts, with total_bytes = 0 and a new output.
NativeGet ==
    /\ n_pc = "get"
    /\ n_attempt <= n_retries
    /\ \/ /\ n_pc' = "sleep"
          /\ UNCHANGED <<n_attempt, n_chunks, n_total, n_output>>
       \/ /\ n_attempt' = n_attempt + 1
          /\ UNCHANGED <<n_pc, n_chunks, n_total, n_output>>
       \/ /\ n_chunks' \in ChunkSeqs(MaxChunks)
          /\ n_total' = 0
          /\ n_output' = 0
          /\ n_pc' = "read"
          /\ UNCHANGED n_attempt
    /\ UNCHANGED <<n_variant, n_cap, n_retries, n_result, dvars, mvars, avars, fvars, svars, tvars, hvars>>

\* One turn of `async for chunk in response.content.iter_chunked(8192)`: the
\* connection breaks, or the chunk is counted, tested and written.  Over the
\* cap the services version raises, into its own except, and the other one
\* returns None.
NativeChunk ==
    /\ n_pc = "read"
    /\ n_chunks # <<>>
    /\ \/ /\ n_pc' = "sleep"
          /\ UNCHANGED <<n_chunks, n_total, n_output, n_result>>
       \/ /\ n_total' = n_total + Head(n_chunks)
          /\ n_chunks' = Tail(n_chunks)
          /\ IF SizeExceeded(n_total', n_cap)
               THEN /\ n_pc' = IF n_variant = "services" THEN "sleep" ELSE "returned"
                    /\ n_result' = -1
                    /\ UNCHANGED n_output
               ELSE /\ n_output' = n_output + Head(n_chunks)
                    /\ UNCHANGED <<n_pc, n_result>>
    /\ UNCHANGED <<n_variant, n_cap, n_retries, n_attempt, dvars, mvars, avars, fvars, svars, tvars, hvars>>

\* The body is over: return output.getvalue() / return output
NativeReturn ==
    /\ n_pc = "read"
    /\ n_chunks = <<>>
    /\ n_result' = n_output
    /\ n_pc' = "returned"
    /\ UNCHANGED <<n_variant, n_cap, n_retries, n_attempt, n_chunks, n_total,
                   n_output, dvars, mvars, avars, fvars, svars, tvars, hvars>>

\* await asyncio.sleep(1), then the next attempt
NativeSleep ==
    /\ n_pc = "sleep"
    /\ n_attempt' = n_attempt + 1
    /\ n_pc' = "get"
    /\ UNCHANGED <<n_variant, n_cap, n_retries, n_chunks, n_total, n_output,
                   n_result, dvars, mvars, avars, fvars, svars, tvars, hvars>>

\* After the loop: a bare raise in the services version, return None in the
\* other.
NativeExhausted ==
    /\ n_pc = "get"
    /\ n_attempt > n_retries
    /\ n_pc' = IF n_variant = "services" THEN "raised" ELSE "returned"
    /\ n_result' = -1
    /\ UNCHANGED <<n_variant, n_cap, n_retries, n_attempt, n_chunks, n_total,
                   n_output, dvars, mvars, avars, fvars, svars, tvars, hvars>>

NextNative ==
    \/ NativeGet
    \/ NativeChunk
    \/ NativeReturn
    \/ NativeSleep
    \/ NativeExhausted

SpecNative == InitNative /\ [][NextNative]_vars

\* ------------------------------------------------- subprocess adapters
\* The longest command list tried.
MaxCommands == 3

\* One call of ytdlp_execute_query, ytdlp_execute_download or
\* capture_livestream.  `process` is None in the download loop and an unbound
\* name in the other two until a child is spawned.
InitAdapter ==
    /\ InitDispatch
    /\ variant = "executor"
    /\ MediaIdle
    /\ NativeIdle
    /\ FilenameIdle
    /\ TranscodeIdle
    /\ HandlerIdle
    /\ a_adapter \in {"query", "download", "livestream"}
    /\ a_pc = "spawn"
    /\ a_commands \in (IF a_adapter = "livestream" THEN {1} ELSE 1..MaxCommands)
    /\ a_index = 1
    /\ a_process = IF a_adapter = "download" THEN "none" ELSE "unbound"
    /\ a_exit = "none"
    /\ a_dir = "absent"
    /\ a_cancelled = FALSE

\* os.makedirs(download_dir, exist_ok=True)
MakeDirs(d) == IF d = "absent" THEN "empty" ELSE d

\* await asyncio.create_subprocess_shell(...) / create_subprocess_exec(...):
\* the child runs, or the call raises.  In the download loop process is None
\* then; in the query loop the name keeps what the turn before left in it and
\* the finally raises UnboundLocalError when there was none; capture_livestream
\* turns the error into RuntimeError.
AdapterSpawn ==
    /\ a_pc = "spawn"
    /\ a_index <= a_commands
    /\ a_dir' = IF a_adapter = "download" THEN MakeDirs(a_dir) ELSE a_dir
    /\ \/ /\ a_process' = "running"
          /\ a_pc' = "wait"
          /\ UNCHANGED a_exit
       \/ CASE a_adapter = "download" ->
                 /\ a_process' = "none"
                 /\ a_exit' = "error"
                 /\ a_pc' = "cleanup"
            [] a_adapter = "query" ->
                 /\ a_exit' = IF a_process = "unbound" THEN "raise" ELSE "continue"
                 /\ a_pc' = IF a_process = "unbound" THEN "ended" ELSE "kill"
                 /\ UNCHANGED a_process
            [] OTHER ->
                 /\ a_exit' = "raise"
                 /\ a_pc' = "ended"
                 /\ UNCHANGED a_process
    /\ UNCHANGED <<a_adapter, a_commands, a_index, a_cancelled, dvars, mvars, nvars, fvars, svars, tvars, hvars>>

\* yt-dlp -P download_dir writes into the directory while it runs, and makes
\* the directory when it is not there.
ChildWrites ==
    /\ a_adapter = "download"
    /\ a_process = "running"
    /\ a_dir # "files"
    /\ a_dir' = "files"
    /\ UNCHANGED <<a_adapter, a_pc, a_commands, a_index, a_process, a_exit,
                   a_cancelled, dvars, mvars, nvars, fvars, svars, tvars, hvars>>

\* How the try block is left when communicate() returns.
AfterCommunicate(outcome) ==
    CASE a_adapter = "query" ->
           IF outcome = "failed" THEN "continue" ELSE "return"
      [] a_adapter = "download" ->
           IF outcome = "forbidden" THEN "break"
           ELSE IF outcome = "ok" /\ a_dir = "files" THEN "return"
           ELSE "error"
      [] OTHER ->
           IF outcome = "ok" THEN "return" ELSE "raise"

\* await process.communicate() returns: the child has exited and is reaped.
\* capture_livestream ends here; the loops go to their finally.
AdapterCommunicate ==
    /\ a_pc = "wait"
    /\ a_process = "running"
    /\ a_process' = "exited"
    /\ \E outcome \in {"ok", "failed", "forbidden"} :
         a_exit' = AfterCommunicate(outcome)
    /\ a_pc' = CASE a_adapter = "query" -> "kill"
                 [] a_adapter = "download" -> "cleanup"
                 [] OTHER -> "ended"
    /\ UNCHANGED <<a_adapter, a_commands, a_index, a_dir, a_cancelled,
                   dvars, mvars, nvars, fvars, svars, tvars, hvars>>

\* asyncio.wait_for(process.communicate(), timeout=30) of the query loop runs
\* out: communicate is cancelled, the TimeoutError is logged and the loop
\* continues through its finally with the child running.
AdapterTimeout ==
    /\ a_adapter = "query"
    /\ a_pc = "wait"
    /\ a_process = "running"
    /\ a_exit' = "continue"
    /\ a_pc' = "kill"
    /\ UNCHANGED <<a_adapter, a_commands, a_index, a_process, a_dir,
                   a_cancelled, dvars, mvars, nvars, fvars, svars, tvars, hvars>>

\* The route timeout cancels the task once, at the await it is suspended in.
\* CancelledError is not an Exception: in the loops only the finally runs, in
\* capture_livestream nothing does.  Raised at the wait of the finally it
\* leaves the adapter with the child killed and not yet awaited.
RouteCancelled ==
    /\ ~a_cancelled
    /\ a_pc \in {"wait", "killwait"}
    /\ a_cancelled' = TRUE
    /\ a_exit' = "cancelled"
    /\ a_pc' = IF a_pc = "killwait" \/ a_adapter = "livestream" THEN "ended"
               ELSE IF a_adapter = "download" THEN "cleanup"
               ELSE "kill"
    /\ UNCHANGED <<a_adapter, a_commands, a_index, a_process, a_dir,
                   dvars, mvars, nvars, fvars, svars, tvars, hvars>>

\* Mutant of AdapterCleanup: the directory is left as the command left it.
AdapterCleanupKeepsFiles ==
    /\ a_adapter = "download"
    /\ a_pc = "cleanup"
    /\ UNCHANGED a_dir
    /\ a_pc' = "kill"
    /\ UNCHANGED <<a_adapter, a_commands, a_index, a_process, a_exit,
                   a_cancelled, dvars, mvars, nvars, fvars, svars, tvars, hvars>>

\* The first half of the finally of the download loop: os.remove every file
\* listed, then os.rmdir.  It runs before the child is killed: a child that
\* is still running can add a file after the listing, rmdir then fails and
\* the failure is logged.
AdapterCleanup ==
    /\ a_adapter = "download"
    /\ a_pc = "cleanup"
    /\ IF a_dir = "absent" THEN UNCHANGED a_dir
       ELSE IF a_process = "running" THEN a_dir' \in {"absent", "files"}
       ELSE a_dir' = "absent"
    /\ a_pc' = "kill"
    /\ UNCHANGED <<a_adapter, a_commands, a_index, a_process, a_exit,
                   a_cancelled, dvars, mvars, nvars, fvars, svars, tvars, hvars>>

\* if process and process.returncode is None: process.kill()
AdapterKill ==
    /\ a_pc = "kill"
    /\ IF a_process \in {"running", "killed"}
         THEN a_process' = "killed" /\ a_pc' = "killwait"
         ELSE a_pc' = "next" /\ UNCHANGED a_process
    /\ UNCHANGED <<a_adapter, a_commands, a_index, a_exit, a_dir, a_cancelled,
                   dvars, mvars, nvars, fvars, svars, tvars, hvars>>

\* await asyncio.wait_for(process.wait(), timeout=5): the child is reaped, or
\* the wait runs out and "Process is stuck" is logged.
AdapterKillWait ==
    /\ a_pc = "killwait"
    /\ a_process' \in {"exited", "killed"}
    /\ a_pc' = "next"
    /\ UNCHANGED <<a_adapter, a_commands, a_index, a_exit, a_dir, a_cancelled,
                   dvars, mvars, nvars, fvars, svars, tvars, hvars>>

\* The end of a loop turn with the break of the 403 branch taken for an
\* ordinary failure.
AdapterNextIgnoresBreak ==
    /\ a_pc = "next"
    /\ IF a_exit \in {"return", "cancelled"}
         THEN /\ a_pc' = "ended"
              /\ UNCHANGED <<a_exit, a_index, a_process>>
         ELSE /\ a_pc' = "spawn"
              /\ a_index' = a_index + 1
              /\ a_exit' = "none"
              /\ a_process' = IF a_adapter = "download" THEN "none" ELSE a_process
    /\ UNCHANGED <<a_adapter, a_commands, a_dir, a_cancelled, dvars, mvars, nvars, fvars, svars, tvars, hvars>>

\* The finally is over: the return or the CancelledError takes effect, a
\* break leads to the raise after the loop, anything else to the next command.
AdapterNext ==
    /\ a_pc = "next"
    /\ IF a_exit \in {"return", "cancelled", "break"}
         THEN /\ a_pc' = "ended"
              /\ a_exit' = IF a_exit = "break" THEN "raise" ELSE a_exit
              /\ UNCHANGED <<a_index, a_process>>
         ELSE /\ a_pc' = "spawn"
              /\ a_index' = a_index + 1
              /\ a_exit' = "none"
              /\ a_process' = IF a_adapter = "download" THEN "none" ELSE a_process
    /\ UNCHANGED <<a_adapter, a_commands, a_dir, a_cancelled, dvars, mvars, nvars, fvars, svars, tvars, hvars>>

\* raise RuntimeError("No valid yt-dlp ... command succeeded.")
AdapterExhausted ==
    /\ a_pc = "spawn"
    /\ a_index > a_commands
    /\ a_pc' = "ended"
    /\ a_exit' = "raise"
    /\ UNCHANGED <<a_adapter, a_commands, a_index, a_process, a_dir,
                   a_cancelled, dvars, mvars, nvars, fvars, svars, tvars, hvars>>

NextAdapter ==
    \/ AdapterSpawn
    \/ ChildWrites
    \/ AdapterCommunicate
    \/ AdapterTimeout
    \/ RouteCancelled
    \/ AdapterCleanup
    \/ AdapterKill
    \/ AdapterKillWait
    \/ AdapterNext
    \/ AdapterExhausted

SpecAdapter == InitAdapter /\ [][NextAdapter]_vars

\* ------------------------------------------------------------- filenames
\* Strings are lists of characters.  One character stands for each class the
\* steps of _generate_filename tell apart: a letter, the three separators
\* kept, a space, a character of the replaced class, a printable character
\* outside it, an accented letter that NFKD splits into a letter and a
\* combining mark, and a character with no ASCII form.
Characters == {"a", "-", "_", ".", " ", "/", "!", "e'", "zh"}

\* The longest title drawn, and the length [:255] stands for.
MaxTitleLen == 3
FilenameLimit == 6

RECURSIVE Strings(_)
Strings(n) ==
    IF n = 0 THEN {<<>>}
    ELSE Strings(n - 1) \cup
         {Append(q, c) : q \in {r \in Strings(n - 1) : Len(r) = n - 1},
                         c \in Characters}

\* unicodedata.normalize("NFKD", c).encode("ASCII", "ignore").decode("ASCII")
AsciiOf(c) ==
    CASE c = "e'" -> <<"a">>
      [] c = "zh" -> <<>>
      [] OTHER -> <<c>>

RECURSIVE NormalizeUnicode(_)
NormalizeUnicode(str) ==
    IF str = <<>> THEN <<>>
    ELSE AsciiOf(Head(str)) \o NormalizeUnicode(Tail(str))

\* re.sub(r'[<>:"/\\|?*\x00-\x1F\'...]', "_", filename)
ReplaceInvalid(str) == [k \in 1..Len(str) |-> IF str[k] = "/" THEN "_" ELSE str[k]]

\* re.sub(run of ch, "_", filename) for runs of at least `least` characters
RECURSIVE RunLength(_, _)
RunLength(str, ch) ==
    IF str = <<>> \/ Head(str) # ch THEN 0 ELSE 1 + RunLength(Tail(str), ch)

RECURSIVE ReplaceRuns(_, _, _)
ReplaceRuns(str, ch, least) ==
    IF str = <<>> THEN <<>>
    ELSE LET n == RunLength(str, ch) IN
           IF n >= least
             THEN <<"_">> \o ReplaceRuns(SubSeq(str, n + 1, Len(str)), ch, least)
           ELSE IF n > 0
             THEN SubSeq(str, 1, n) \o ReplaceRuns(SubSeq(str, n + 1, Len(str)), ch, least)
           ELSE <<Head(str)>> \o ReplaceRuns(Tail(str), ch, least)

\* filename.strip("_.")
RECURSIVE LStrip(_)
LStrip(str) ==
    IF str # <<>> /\ Head(str) \in {"_", "."} THEN LStrip(Tail(str)) ELSE str

RECURSIVE RStrip(_)
RStrip(str) ==
    IF str # <<>> /\ str[Len(str)] \in {"_", "."}
      THEN RStrip(SubSeq(str, 1, Len(str) - 1)) ELSE str

Strip(str) == RStrip(LStrip(str))

\* filename[:255]
Truncate(str) == SubSeq(str, 1, IF Len(str) < FilenameLimit THEN Len(str) ELSE FilenameLimit)

\* "{title}-{uploader}-{extractor}-{id}".format(...)
FormatName(metadata) ==
    metadata.title \o <<"-">> \o metadata.uploader \o <<"-">> \o
    metadata.extractor \o <<"-">> \o metadata.id

\* _generate_filename
GenerateFilename(metadata) ==
    LET ascii == NormalizeUnicode(FormatName(metadata))
        valid == ReplaceInvalid(ascii)
        spaced == ReplaceRuns(valid, " ", 1)
        single == ReplaceRuns(spaced, "_", 2)
        cut == Truncate(Strip(single))
    IN ReplaceRuns(cut, "_", 1)

\* _generate_media_filename: f"{filename}.{extension}"
GenerateMediaFilename(metadata, extension) ==
    GenerateFilename(metadata) \o <<".">> \o extension

\* One filename asked for: any title, a uploader that is there or empty, an
\* extension as the mimetype gives it.
InitFilename ==
    /\ InitDispatch
    /\ variant = "executor"
    /\ MediaIdle
    /\ NativeIdle
    /\ AdapterIdle
    /\ TranscodeIdle
    /\ HandlerIdle
    /\ f_pc = "call"
    /\ f_metadata \in [ title : Strings(MaxTitleLen),
                        uploader : {<<>>, <<"a">>},
                        extractor : {<<"a">>},
                        id : {<<"a">>} ]
    /\ f_extension \in {<<"a">>, <<"a", "a", "a">>}
    /\ f_filename = <<>>

MakeFilename ==
    /\ f_pc = "call"
    /\ f_filename' = GenerateMediaFilename(f_metadata, f_extension)
    /\ f_pc' = "done"
    /\ UNCHANGED <<f_metadata, f_extension, dvars, mvars, nvars, avars, svars, tvars, hvars>>

NextFilename == MakeFilename

SpecFilename == InitFilename /\ [][NextFilename]_vars

\* ------------------------------------------------------- transcode adapter
\* The operations of Ffmpeg that hand back a byte buffer.
TranscodeOps ==
    {"extract_thumbnail", "capture_livestream", "postprocess_video",
     "prostprocess_audio", "normalize_image"}

\* Mutant of ValidateFileSize: a ceiling of 0 is read as no ceiling.
ValidateFileSizeZeroUnlimited(len, max_file_size) ==
    ~(max_file_size > 0 /\ len > max_file_size)

\* Ffmpeg._validate_file_size: False when len(data) > max_file_size, where
\* max_file_size = config.file.get("max_in_memory_file_size", 0)
ValidateFileSize(len, max_file_size) == ~(len > max_file_size)

\* One operation is called, under any ceiling from 0 (also the value of an
\* unset max_in_memory_file_size) up.
InitTranscode ==
    /\ InitDispatch
    /\ variant = "executor"
    /\ MediaIdle
    /\ NativeIdle
    /\ AdapterIdle
    /\ FilenameIdle
    /\ HandlerIdle
    /\ t_pc = "convert"
    /\ t_op \in TranscodeOps
    /\ t_cap \in 0..max_in_memory_file_size
    /\ t_output = 0
    /\ t_result = -1

\* convert_bytes / the ffmpeg child of capture_livestream: it fails and the
\* operation raises, or it hands over its output, of any length.
Convert ==
    /\ t_pc = "convert"
    /\ \/ /\ t_pc' = "raised"
          /\ UNCHANGED t_output
       \/ /\ t_output' \in 0..(max_in_memory_file_size + 1)
          /\ t_pc' = "validate"
    /\ UNCHANGED <<t_op, t_cap, t_result, dvars, mvars, nvars, avars, fvars, svars, hvars>>

\* if not self._validate_file_size(output): raise ... ; return output
\* (a bare raise in extract_thumbnail, RuntimeError in the others;
\* capture_livestream wraps its own in another RuntimeError)
ValidateOutput ==
    /\ t_pc = "validate"
    /\ IF ValidateFileSize(t_output, t_cap)
         THEN t_pc' = "returned" /\ t_result' = t_output
         ELSE t_pc' = "raised" /\ UNCHANGED t_result
    /\ UNCHANGED <<t_op, t_cap, t_output, dvars, mvars, nvars, avars, fvars, svars, hvars>>

NextTranscode == Convert \/ ValidateOutput

SpecTranscode == InitTranscode /\ [][NextTranscode]_vars


\* ----------------------------------------------------- MediaHandler.process
\* The most requests one message carries in the model.
MaxRequests == 3

\* How one turn of the loop of MediaHandler.process can go:
\*   "resolve_raised"  process_request raised
\*   "resolve_none"    process_request returned no media object (continue)
\*   "no_content"      _upload_media raised ValueError: the object has no content
\*   "upload_failed"   the upload raised or gave no uri: _upload_media raised
\*   "uploaded"        _upload_media returned the uris
Outcomes ==
    {"resolve_raised", "resolve_none", "no_content", "upload_failed",
     "uploaded"}

\* Mutant of ProcessedAfter: the new entry is put in front of the list.
ProcessedAfterPrepend(result, index, outcome) ==
    IF outcome = "uploaded" THEN <<index>> \o result ELSE result

\* processed_media_array after the turn for the request at `index`: the
\* append is reached only when neither process_request nor _upload_media
\* raised and the media object was not falsy; every Exception is caught and
\* the loop continues.
ProcessedAfter(result, index, outcome) ==
    IF outcome = "uploaded" THEN Append(result, index) ELSE result

\* process is called with any list of up to MaxRequests requests.
InitHandler ==
    /\ InitDispatch
    /\ variant = "executor"
    /\ MediaIdle
    /\ NativeIdle
    /\ AdapterIdle
    /\ FilenameIdle
    /\ TranscodeIdle
    /\ h_pc = "loop"
    /\ h_count \in 0..MaxRequests
    /\ h_index = 1
    /\ h_outcomes = <<>>
    /\ h_result = <<>>

\* One turn of `for request in requests`.
HandleRequest ==
    /\ h_pc = "loop"
    /\ h_index <= h_count
    /\ \E outcome \in Outcomes :
        /\ h_outcomes' = Append(h_outcomes, outcome)
        /\ h_result' = ProcessedAfter(h_result, h_index, outcome)
    /\ h_index' = h_index + 1
    /\ UNCHANGED <<h_pc, h_count, dvars, mvars, nvars, avars, fvars, svars, tvars>>

\* After the loop: raise when processed_media_array is empty, else return it.
HandleEnd ==
    /\ h_pc = "loop"
    /\ h_index > h_count
    /\ h_pc' = IF h_result = <<>> THEN "raised" ELSE "returned"
    /\ UNCHANGED <<h_count, h_index, h_outcomes, h_result, dvars, mvars, nvars,
                   avars, fvars, svars, tvars>>

NextHandler == HandleRequest \/ HandleEnd

SpecHandler == InitHandler /\ [][NextHandler]_vars


\* ------------------------------------------------------------------ claims
WorkerDone == {"Delivered", "Failed", "TimedOut"}
Ended == WorkerDone \cup {"Dropped"}
InQueue(i) == \E k \in 1..Len(event_queue) : event_queue[k] = i
HeldBy(w, i) == packet[w] = i
InRoute(w) == pc[w] \in RoutePcs

C2_EveryIndicatorRedacted ==
    \A i \in Items : phase[i] \in Ended => visible[i] = {}

C5_QueueBoundedDropWhenFull ==
    /\ [](Len(event_queue) <= EventQueueCapacity)
    /\ [][\A i \in Items :
            /\ (phase[i] = "Preprocessing" /\ reaction_id'[i] = "queued") =>
                  IF Len(event_queue) < EventQueueCapacity
                    THEN phase'[i] = "Queued" /\ event_queue' = Append(event_queue, i)
                    ELSE phase'[i] = "Dropped" /\ event_queue' = event_queue
            /\ (InQueue(i) /\ ~InQueue(i)') =>
                  \E w \in Workers : pc[w] = "get" /\ packet'[w] = i]_vars

C5_Witness ==
    /\ \A w \in Workers : InRoute(w)
    /\ Len(event_queue) = EventQueueCapacity
    /\ \E i \in Items : phase[i] = "Dropped" /\ visible[i] = {"queued"}

\* C6: never more than preprocess_worker_limit items are inside
\* handle_preprocess; an item whose task starts while that many are inside is
\* dropped with nothing posted and nothing enqueued; and the event handler can
\* always hand over the next event.
Inside == {i \in Items : phase[i] = "Preprocessing"}

C6_PreprocessCapped ==
    /\ [](Cardinality(Inside) <= PreprocessWorkerLimit)
    /\ [](\A i \in Items :
            (phase[i] = "New" /\ \A j \in Items : j < i => phase[j] # "New")
                => ENABLED Submit(i))
    /\ [][\A i \in Items :
            (/\ phase[i] = "Received" /\ phase'[i] # "Received"
             /\ Cardinality(Inside) >= PreprocessWorkerLimit) =>
                /\ phase'[i] = "Dropped"
                /\ visible'[i] = {} /\ reaction_id'[i] = NoHandle
                /\ event_queue' = event_queue]_vars

C6_Witness ==
    /\ Cardinality(Inside) = PreprocessWorkerLimit
    /\ \E i, j \in Items :
          /\ i < j /\ phase[i] = "Preprocessing"
          /\ phase[j] = "Dropped" /\ j \in preprocess_tasks

\* C7: an item only steps forward along Received, Preprocessing, Queued,
\* Processing, then Delivered or Failed (timed out included), or leaves early
\* as dropped; it is on the queue exactly while Queued and in a worker's hands
\* exactly while Processing; it leaves the queue at most once, and once ended
\* it never moves again.
PhaseSteps ==
    { <<"New", "Received">>,
      <<"Received", "Preprocessing">>, <<"Received", "Dropped">>,
      <<"Preprocessing", "Queued">>, <<"Preprocessing", "Dropped">>,
      <<"Queued", "Processing">>,
      <<"Processing", "Delivered">>, <<"Processing", "Failed">>,
      <<"Processing", "TimedOut">> }

C7_PhasesInOrder ==
    /\ [][\A i \in Items :
            phase'[i] # phase[i] => <<phase[i], phase'[i]>> \in PhaseSteps]_vars
    /\ [](\A i \in Items :
            /\ dequeues[i] <= 1
            /\ InQueue(i) <=> phase[i] = "Queued"
            /\ (\E w \in Workers : HeldBy(w, i)) <=> phase[i] = "Processing"
            /\ Cardinality({k \in 1..Len(event_queue) : event_queue[k] = i}) <= 1)

C7_Witness ==
    \E i, j, k \in Items :
        /\ phase[i] = "Delivered" /\ phase[j] = "Failed" /\ phase[k] = "TimedOut"
        /\ dequeues[i] = 1 /\ dequeues[j] = 1 /\ dequeues[k] = 1
        /\ event_queue = <<>>

HasProfile(key) == key \in DOMAIN platform_configs /\ DOMAIN platform_configs[key] # {}
Entries == {k \in 1..Len(platforms) : platforms[k].domain = GetDomain(url)}
FirstEntry == CHOOSE k \in Entries : \A j \in Entries : k <= j

LookupMisses ==
    IF query_derived
      THEN ~HasProfile("query")
      ELSE \/ Entries = {}
           \/ platforms[FirstEntry].config_key = ""
           \/ ~HasProfile(platforms[FirstEntry].config_key)

C9_LookupMissMakesNoCall ==
    (mpc # "create" /\ LookupMisses) =>
        /\ request = "None"
        /\ mpc = "end"
        /\ calls = {}
        /\ artifact = "none"

C9_Witness ==
    /\ mpc = "end" /\ request = "None" /\ calls = {}
    /\ query_derived /\ "query" \notin DOMAIN platform_configs
    /\ url.labels = <<"www", "EX", "com">> /\ url.port

\* C10: when the profile asks for yt-dlp and the metadata query is over with
\* no command's json taken - every command failed, or a 403 stopped the list -
\* no download command has run, no thumbnail fallback was entered, nothing was
\* fetched and no artifact exists, and the request only moves on to its end.
QueryOverWithoutMetadata ==
    /\ mpc \notin {"create", "metadata", "query"}
    /\ ~Falsy(platform_config) /\ platform_config.ytdlp
    /\ "selected_format" \notin DOMAIN ytdlp_metadata

C10_QueryFailureIsTerminal ==
    QueryOverWithoutMetadata =>
        /\ "ytdlp_download" \notin calls
        /\ "http" \notin calls /\ "ffmpeg" \notin calls
        /\ "capture_livestream" \notin calls
        /\ ~fallback
        /\ artifact = "none"
        /\ mpc \in {"process", "end"}
        /\ request = "None" => mpc = "end"

C10_Witness ==
    /\ mpc = "end" /\ request = "MediaRequest"
    /\ ytdlp_metadata = ErrorDict
    /\ calls = {"ytdlp_query"} /\ command_index = 2

\* The metadata yt-dlp declared for the url, once a query command gave one.
HasMetadata == "selected_format" \in DOMAIN ytdlp_metadata
DeclaredDuration == NumGet(ytdlp_metadata, "duration")
DeclaredSize == NumGet(ytdlp_metadata, "filesize_approx")
Ceiling ==
    IF modifier = "force_audio_only" THEN max_audio_only_duration ELSE max_duration
Exceeded ==
    /\ HasMetadata
    /\ ~ytdlp_metadata.is_live
    /\ DeclaredDuration > Ceiling \/ DeclaredSize > max_in_memory_file_size
FallbackPossible ==
    /\ config.enable_thumbnail_fallback_if_duration_or_size_exceeds
    /\ ytdlp_metadata.thumbnail
    /\ remote.thumbnail_len <= max_in_memory_file_size

\* C11: for media that is not live a download command is run only when the
\* declared duration is absent or within the duration ceiling and the declared
\* size is absent or within the size ceiling.  When a limit is exceeded the
\* only artifact there can be is the remote thumbnail tagged
\* advanced-thumbnail-fallback, and only with the fallback switched on and a
\* thumbnail that could be fetched; otherwise the request ends with no
\* artifact.
C11_DownloadOnlyWithinLimits ==
    /\ ("ytdlp_download" \in calls /\ HasMetadata /\ ~ytdlp_metadata.is_live) =>
          /\ DeclaredDuration <= Ceiling
          /\ DeclaredSize <= max_in_memory_file_size
    /\ Exceeded =>
          /\ "ytdlp_download" \notin calls
          /\ content # NoFile =>
                /\ content.origin = "advanced-thumbnail-fallback"
                /\ FallbackPossible
          /\ (~FallbackPossible /\ mpc \notin {"query", "process", "cancelled"}) =>
                /\ mpc = "end"
                /\ content = NoFile
                /\ artifact = "none"

C11_Witness ==
    /\ Exceeded
    /\ DeclaredSize > max_in_memory_file_size /\ DeclaredDuration <= Ceiling
    /\ mpc = "uploaded"
    /\ content.origin = "advanced-thumbnail-fallback"
    /\ "ytdlp_download" \notin calls


\* C12: the duration test is "greater than the ceiling": a declared duration
\* equal to the ceiling goes on to the download commands, one unit more goes
\* to the fallback or fails.  The ceiling is max_audio_only_duration when
\* audio only is forced and max_duration otherwise.
C12_DurationCeilingInclusive ==
    [][ ( /\ mpc = "process"
          /\ mpc' \notin {"process", "cancelled"}
          /\ HasMetadata
          /\ ~ytdlp_metadata.is_live
          /\ DeclaredSize <= max_in_memory_file_size )
        => /\ DeclaredDuration = Ceiling =>
                 (mpc' = "download" /\ ~fallback' /\ calls' = calls)
           /\ DeclaredDuration = Ceiling + 1 =>
                 /\ mpc' \in {"post", "end"}
                 /\ fallback' = config.enable_thumbnail_fallback_if_duration_or_size_exceeds
                 /\ mpc' = "post" => fallback'
       ]_vars

C12_Witness ==
    /\ modifier = "force_audio_only"
    /\ HasMetadata /\ ~ytdlp_metadata.is_live
    /\ DeclaredDuration = max_audio_only_duration + 1
    /\ DeclaredDuration <= max_duration
    /\ DeclaredSize = 0
    /\ fallback /\ mpc = "post"
    /\ "ytdlp_download" \notin calls


\* C13: when the declared size or duration exceeds its ceiling, the fallback
\* is switched on and the thumbnail of the metadata was fetched, the primary
\* artifact has origin advanced-thumbnail-fallback, is classified image, has
\* the byte count of the thumbnail as its size, and keeps the declared
\* duration and approximate size in meta_duration and meta_size.
C13_FallbackArtifactShape ==
    (Exceeded /\ FallbackPossible /\ content # NoFile) =>
        /\ content.origin = "advanced-thumbnail-fallback"
        /\ content.media_type = "image"
        /\ content.size = remote.thumbnail_len
        /\ content.meta_duration = DeclaredDuration
        /\ content.meta_size = DeclaredSize
        /\ ~content.thumbnail_url

C13_Witness ==
    /\ Exceeded /\ FallbackPossible
    /\ DeclaredDuration > Ceiling
    /\ mpc = "done"
    /\ content # NoFile
    /\ content.meta_duration = max_duration + 1
    /\ content.size = remote.thumbnail_len
    /\ content.size # DeclaredSize

\* The artifacts the request holds.
Artifacts == {content, thumbnail} \ {NoFile}

\* C14: every artifact of a resolution - the primary one, the thumbnail
\* derived for it, the thumbnail taken as fallback - has a size equal to the
\* number of bytes in its stream, whatever size the metadata declared: the
\* primary stream holds the bytes post-processing handed over.
C14_SizeIsByteCount ==
    /\ \A f \in Artifacts : f.size = f.stream
    /\ content # NoFile => content.stream = data.len

C14_Witness ==
    /\ mpc = "done"
    /\ content # NoFile /\ thumbnail # NoFile
    /\ content.origin = "advanced"
    /\ DeclaredSize # 0 /\ content.size # DeclaredSize
    /\ content.size = content.stream
    /\ thumbnail.size = thumbnail.stream


\* C15: whatever goes wrong while the thumbnail is obtained - the remote
\* fetch fails, frame extraction raises or returns nothing, the probe of the
\* thumbnail fails - the request is not failed: once the primary artifact is
\* built the request goes on to delivery with it.
C15_ThumbnailFailureNotEscalated ==
    (content # NoFile /\ mpc \notin {"thumbnail", "cancelled"}) =>
        /\ mpc \in {"done", "uploaded", "upload_failed"}
        /\ artifact \in {"primary", "primary+thumbnail"}


\* The request is over: delivered or not, failed, cancelled, or ended with
\* nothing.
RequestEnded == mpc \in {"uploaded", "upload_failed", "failed", "cancelled", "end"}

\* C19: the stream of every artifact built for a request is closed exactly
\* once - by delivery after the upload attempt, whether it succeeded or not,
\* and when the request is aborted with the artifact built - and no stream is
\* open once the request has ended.
C19_StreamsClosedOnce ==
    /\ \A f \in Artifacts : f.closes <= 1 /\ (f.closed <=> f.closes = 1)
    /\ RequestEnded => \A f \in Artifacts : f.closed /\ f.closes = 1
    /\ mpc \in {"thumbnail", "done"} => \A f \in Artifacts : ~f.closed

C19_Witness ==
    /\ mpc = "failed"
    /\ content # NoFile
    /\ content.closed /\ content.closes = 1
    /\ "upload" \notin calls


\* C20: an item whose primary content failed - the route action raised or
\* ran into the route timeout - carries, when the worker is done with it, a
\* visible failure indicator that is none of the progress indicators.
C20_FailureIndicatorPosted ==
    \A i \in Items :
        phase[i] \in {"Failed", "TimedOut"} => visible[i] \ Indicators # {}


\* C16: with a positive cap client_download never returns more bytes than the
\* cap.  The output never holds more than the cap; once the running count is
\* over the cap no further chunk is read, and the call ends with nothing
\* returned from that body: what is returned is always a whole body.
C16_CapNeverExceeded ==
    n_cap > 0 =>
        /\ n_output <= n_cap
        /\ n_result <= n_cap
        /\ n_total > n_cap => (n_pc # "read" /\ n_result = -1)
        /\ n_result # -1 => (n_result = n_total /\ n_chunks = <<>>)

C16_Witness ==
    /\ n_cap > 0
    /\ n_variant = "services"
    /\ n_pc = "raised"
    /\ n_total > n_cap
    /\ n_output > 0
    /\ n_result = -1
    /\ n_chunks # <<>>


\* C17: when a call of a downloader or transcode adapter has ended - by
\* return, by an error, after the adapter's own timeout, or cancelled by the
\* route timeout - the child process it started is not running and has been
\* awaited.
C17_NoChildOutlivesAdapter ==
    a_pc = "ended" => a_process \in {"unbound", "none", "exited"}

\* C18: when ytdlp_execute_download has ended - with the bytes, with the
\* raise after the commands, after a non-retryable error, or cancelled - the
\* download directory of the request and the files in it are gone.
C18_DownloadDirRemoved ==
    (a_adapter = "download" /\ a_pc = "ended") => a_dir = "absent"


\* C21: whatever the title, uploader, extractor, id and extension, the
\* filename of an artifact has between 1 and 255 characters and only letters,
\* digits, underscores, dots and hyphens.
SafeCharacters == {"a", "_", ".", "-"}

C21_FilenameSafe ==
    f_pc = "done" =>
        /\ Len(f_filename) >= 1
        /\ Len(f_filename) <= FilenameLimit
        /\ \A k \in 1..Len(f_filename) : f_filename[k] \in SafeCharacters


\* C22: download commands run one at a time in list order.  A child is only
\* started for the command the index is at, with no child of an earlier
\* command running; the index only moves to the next command, and only after
\* a failure other than the 403 one; after a success or a 403 failure no
\* further command is started; the call ends returning the bytes of the
\* command that succeeded, or raising when the list was stopped or exhausted.
C22_CommandsInOrder ==
    [][a_adapter = "download" =>
        /\ a_index' \in {a_index, a_index + 1}
        /\ (a_index' # a_index) =>
               a_exit = "error" /\ a_process \in {"none", "exited"}
        /\ (a_process' = "running" /\ a_process # "running") =>
               a_pc = "spawn" /\ a_index <= a_commands /\ a_process = "none"
        /\ (a_exit \in {"return", "break"}) =>
               a_index' = a_index /\ a_pc' # "spawn" /\ a_process' # "running"
        /\ (a_exit = "error" /\ a_pc = "next") =>
               a_pc' = "spawn" /\ a_index' = a_index + 1
        /\ (a_pc' = "ended" /\ a_pc # "ended") =>
               /\ a_exit' \in {"return", "raise", "cancelled"}
               /\ (a_exit' = "return") = (a_exit = "return")
               /\ (a_exit' = "raise") = (a_exit = "break" \/ a_index > a_commands)
    ]_vars

\* A second command failed with 403 and the call raised with a command left.
C22_Witness ==
    /\ a_adapter = "download"
    /\ a_pc = "ended"
    /\ a_exit = "raise"
    /\ a_index = 2
    /\ a_commands = MaxCommands
    /\ ~a_cancelled


\* C23: when the bytes a download command produced are longer than the size
\* ceiling although the declared size passed the gate, the request follows
\* the thumbnail-fallback-or-fail policy: with the fallback enabled and a
\* thumbnail that can be fetched the artifact is the thumbnail tagged
\* advanced-thumbnail-fallback, otherwise there is no artifact.
RealizedSizeExceeded ==
    /\ HasMetadata
    /\ ~IsLive(ytdlp_metadata)
    /\ "ytdlp_download" \in calls
    /\ data # NoData
    /\ data.len > max_in_memory_file_size

C23_RealizedSizeFallback ==
    (RealizedSizeExceeded /\ mpc \notin {"post", "cancelled"}) =>
        IF FallbackPossible
          THEN content # NoFile /\ content.origin = "advanced-thumbnail-fallback"
          ELSE content = NoFile


\* C24: a failure of the optional normalization - the transcode raises, or its
\* output is rejected - is swallowed: the request still has its primary
\* artifact, made of the bytes as they were before normalization.
C24_NormalizationFailureSwallowed ==
    (normalize \in {"video_failed", "audio_failed"} /\ mpc # "cancelled") =>
        /\ content # NoFile
        /\ content.stream = data.len


\* C25: client_download issues at most the configured number of GET attempts;
\* a further attempt follows a failed one only after the fixed backoff sleep,
\* and no GET follows an abort for exceeding the size limit.
C25_BoundedAttemptsWithBackoff ==
    [][/\ (n_pc = "get" /\ n_pc' \in {"read", "sleep"}) => n_attempt <= n_retries
       /\ (n_attempt' # n_attempt /\ n_attempt' <= n_retries) => n_pc = "sleep"
       /\ SizeExceeded(n_total, n_cap) => n_pc' # "read"
    ]_vars


\* C26: when the metadata reports a live stream, the preview capture is run
\* only if live previews are enabled - otherwise the request ends with nothing
\* captured and no artifact - and no download command is run, the thumbnail
\* fallback is not entered and the duration gate does not apply: an artifact
\* there is comes from the capture, whatever duration the metadata declares.
LiveStream == HasMetadata /\ ytdlp_metadata.is_live

C26_LiveStreamPreviewOnly ==
    LiveStream =>
        /\ "ytdlp_download" \notin calls
        /\ ~fallback
        /\ "capture_livestream" \in calls => config.enable_livestream_previews
        /\ (~config.enable_livestream_previews /\ mpc \notin {"process", "cancelled"}) =>
               mpc = "end" /\ data = NoData /\ content = NoFile
        /\ content # NoFile =>
               /\ content.origin = "advanced"
               /\ "capture_livestream" \in calls

\* A live stream whose declared duration is over the ceiling was captured and
\* made into the artifact.
C26_Witness ==
    /\ LiveStream
    /\ DeclaredDuration > Ceiling
    /\ content # NoFile
    /\ "capture_livestream" \in calls


\* C28: for a profile that does not require the downloader, no query and no
\* download command is ever run: the content is fetched directly and the
\* artifact, when there is one, has origin simple.  Its thumbnail is never
\* fetched from a remote url: when the artifact is video, thumbnail generation
\* is enabled and audio only is not forced, a frame is extracted locally, and
\* a thumbnail exists only in that case.
DirectProfile == ~Falsy(platform_config) /\ ~platform_config.ytdlp

C28_SimpleProfileDirectFetch ==
    DirectProfile =>
        /\ calls \cap {"ytdlp_query", "ytdlp_download", "capture_livestream",
                       "http_thumbnail"} = {}
        /\ ~fallback
        /\ content # NoFile => content.origin = "simple" /\ "http" \in calls
        /\ thumbnail # NoFile =>
               /\ content # NoFile /\ content.media_type = "video"
               /\ config.enable_thumbnail_generation
               /\ modifier # "force_audio_only"
               /\ "extract_thumbnail" \in calls
        /\ ( /\ content # NoFile /\ content.media_type = "video"
             /\ config.enable_thumbnail_generation
             /\ modifier # "force_audio_only"
             /\ mpc \notin {"thumbnail", "cancelled"} ) =>
               "extract_thumbnail" \in calls

\* A simple video artifact got its thumbnail cut from a frame.
C28_Witness ==
    /\ DirectProfile
    /\ content # NoFile /\ content.origin = "simple"
    /\ thumbnail # NoFile
    /\ "extract_thumbnail" \in calls


\* C29: video normalization is applied only to content of type video or
\* application, and only when audio only is not forced (and the video switch
\* is on); audio normalization only to content of type audio of a profile
\* without downloader (and the audio switch on); the content of a thumbnail
\* is never normalized.
FetchedType == IF "capture_livestream" \in calls THEN "video" ELSE remote.media_type

C29_NormalizationConditions ==
    /\ normalize \in {"video", "video_failed"} =>
           /\ FetchedType \in {"video", "application"}
           /\ modifier # "force_audio_only"
           /\ config.enable_normalize_videos_to_mp4
    /\ normalize \in {"audio", "audio_failed"} =>
           /\ FetchedType = "audio"
           /\ ~platform_config.ytdlp
           /\ config.enable_normalize_audio_to_mp3
    /\ fallback => normalize = "none"


\* C30: items leave the queue in the order they were enqueued.  An item is
\* only ever added at the tail of the queue, the item a worker starts on is
\* the one at the head, and the items behind it keep their places: an item
\* enqueued after another is never started before it.
C30_QueueIsFifo ==
    [][/\ event_queue' # event_queue =>
             \/ \E i \in Items : event_queue' = Append(event_queue, i)
             \/ /\ event_queue # <<>>
                /\ event_queue' = Tail(event_queue)
                /\ \E w \in Workers : pc[w] = "get" /\ packet'[w] = Head(event_queue)
       /\ \A w \in Workers : (pc[w] = "get" /\ pc'[w] # "get") =>
             /\ event_queue # <<>>
             /\ packet'[w] = Head(event_queue)
             /\ event_queue' = Tail(event_queue)
    ]_vars

\* Two items have been started one after the other while a third waits, and
\* the queue held two items at once on the way.
C30_Witness ==
    \E a, b \in Items :
        /\ a # b
        /\ dequeues[a] = 1 /\ dequeues[b] = 1
        /\ Len(event_queue) = EventQueueCapacity


\* C27 as stated: the download command list has exactly one command per
\* configured format, the command of the format the metadata query succeeded
\* with at the front, the other commands in their configured order.
ConfiguredFormats == platform_config.ytdlp_formats

Occurrences(list, format) == Cardinality({k \in 1..Len(list) : list[k] = format})

IsPermutation(list, other) ==
    /\ Len(list) = Len(other)
    /\ \A k \in 1..Len(list) : Occurrences(list, list[k]) = Occurrences(other, list[k])

\* `list` with the entry at k moved to the front and nothing else moved.
MovedToFront(cmds, list, k) ==
    /\ Len(cmds) = Len(list)
    /\ cmds[1] = list[k]
    /\ \A j \in 1..Len(list) :
          /\ j < k => cmds[j + 1] = list[j]
          /\ j > k => cmds[j] = list[j]

QueryFormatFirst(cmds, list) ==
    IF \E k \in 1..Len(list) : list[k] = ytdlp_metadata.selected_format
      THEN \E k \in 1..Len(list) :
              /\ list[k] = ytdlp_metadata.selected_format
              /\ \A j \in 1..(k - 1) : list[j] # ytdlp_metadata.selected_format
              /\ MovedToFront(cmds, list, k)
      ELSE cmds = list

C27_OriginalOneCommandPerFormat ==
    commands # <<>> =>
        /\ IsPermutation(commands, ConfiguredFormats)
        /\ QueryFormatFirst(commands, ConfiguredFormats)

\* C27: unless audio only is forced, the download command list has exactly
\* one command per configured format - a permutation of the configured
\* formats - with the command of the format the metadata query succeeded
\* with at the front and the other commands in their configured order; when
\* audio only is forced the list is the single audio-only command.
C27_OneCommandPerFormat ==
    commands # <<>> =>
        IF modifier = "force_audio_only"
          THEN commands = <<"audio_only">>
          ELSE /\ IsPermutation(commands, ConfiguredFormats)
               /\ QueryFormatFirst(commands, ConfiguredFormats)

\* The query succeeded with the third configured format and its command was
\* moved in front of the two others.
C27_Witness ==
    /\ commands # <<>>
    /\ modifier # "force_audio_only"
    /\ Len(ConfiguredFormats) >= 3
    /\ commands[1] = ConfiguredFormats[3]
    /\ commands[2] = ConfiguredFormats[1]
    /\ commands[3] = ConfiguredFormats[2]


\* C32: the in-flight preprocess set holds exactly the ids of the items whose
\* preprocess task is running; whenever no preprocess task is running the set
\* is empty, also after an item was refused by the cap, dropped at a full
\* queue or had its event id replaced by censoring.
C32_InFlightSetExact ==
    preprocess_tasks = {i \in Items : phase[i] = "Preprocessing"}


\* C33: a process worker ends only when it is cancelled at shutdown: as long
\* as stop has not been called every worker task of the pool is alive,
\* whatever transport call or route action failed or timed out.
C33_WorkersLiveUntilStop ==
    ~stopping => \A w \in Workers : pc[w] # "ended"


\* C34: with at least one worker, every item that was enqueued is eventually
\* dequeued and reaches Delivered or Failed.  For that an item waiting in the
\* queue must always have a worker left to take it: as long as stop has not
\* been called, an item is never queued with every worker task ended.
C34_EnqueuedItemHasWorker ==
    (~stopping /\ \E i \in Items : phase[i] = "Queued") =>
        \E w \in Workers : pc[w] # "ended"

\* C35: a worker calls task_done() exactly once per item it has taken and
\* never without having taken one - also when it is cancelled while waiting
\* at the queue, before its first item or after an earlier one.
C35_TaskDoneOncePerItem ==
    \A i \in Items :
        /\ task_done[i] <= dequeues[i]
        /\ phase[i] \in WorkerDone => task_done[i] = dequeues[i]


\* C31: every buffer an operation of the transcode adapter returns - thumbnail
\* frame, live preview, normalized video, audio or image - is at most
\* max_in_memory_file_size bytes long; when the output is longer the operation
\* raises and returns nothing.
C31_TranscodeOutputBounded ==
    /\ t_pc = "returned" => t_result = t_output /\ t_result <= t_cap
    /\ (t_pc \in {"returned", "raised"} /\ t_output > t_cap) =>
           t_pc = "raised" /\ t_result = -1

\* An output one byte over the ceiling made the operation raise.
C31_Witness ==
    /\ t_pc = "raised"
    /\ t_cap = max_in_memory_file_size
    /\ t_output = t_cap + 1
    /\ t_result = -1

\* C37: the fetch adapter and the transcode adapter enforce the same ceiling:
\* for every max_in_memory_file_size, 0 or unset included, a buffer that
\* client_download returns passes the size validation of extract_metadata.
C37_SameCeiling ==
    (n_pc = "returned" /\ n_result >= 0) => ValidateFileSize(n_result, n_cap)


\* C36: ytdlp_execute_query hands back a metadata object only when a query
\* command exited successfully with a non-empty JSON object, tagged with the
\* format of that command; in every other case, a 403 failure included,
\* create_media_request yields no request for a profile that uses yt-dlp.
C36_RequestOnlyWithMetadata ==
    (~Falsy(platform_config) /\ platform_config.ytdlp /\ request = "MediaRequest") =>
        /\ "selected_format" \in DOMAIN ytdlp_metadata
        /\ command_index \in 1..Len(Commands)
        /\ ytdlp_metadata.selected_format = Commands[command_index]


Succeeded == {k \in 1..Len(h_outcomes) : h_outcomes[k] = "uploaded"}

\* C39: MediaHandler.process handles the requests in order and independently:
\* at every point the result holds exactly the requests handled so far whose
\* resolution and upload succeeded, each once and in input order, whatever
\* happened to the others; the call ends only after every request had its
\* turn, and it raises if and only if no request succeeded.
C39_ResultIsSucceededInOrder ==
    /\ Len(h_outcomes) = (IF h_pc = "idle" THEN 0 ELSE h_index - 1)
    /\ {h_result[k] : k \in 1..Len(h_result)} = Succeeded
    /\ \A j, k \in 1..Len(h_result) : j < k => h_result[j] < h_result[k]
    /\ h_pc \in {"returned", "raised"} =>
        /\ Len(h_outcomes) = h_count
        /\ (h_pc = "raised") <=> (Succeeded = {})

\* A call returned two requests around one whose upload failed.
C39_Witness ==
    /\ h_pc = "returned"
    /\ h_count = 3
    /\ h_outcomes[2] = "upload_failed"
    /\ h_result = <<1, 3>>

=============================================================================
